---- MODULE Spec2Model ----
(***************************************************************************)
(* PLAN (gaurav-pathrabe/PLAN): the validity-aware task registry, the day  *)
(* record store and the persistence layer of src/app.go as a state         *)
(* machine.  One action per exported operation of App; every mutating      *)
(* operation carries its saveDataLocked / atomicWriteFile call, whose file *)
(* system outcomes (a failing step, a crash after some steps) are inputs.  *)
(***************************************************************************)
EXTENDS Integers, Sequences, FiniteSets, TLC

\* ------------------------------------------------------------------ bounds

\* Calendar days the clock can advance during a run.
MaxDays == 1
\* Calls after startup in a run.
MaxOps == 3
\* Templates the registry can hold (the four defaults and the added ones).
MaxTemplates == 5
\* Process crashes in a run.
MaxCrashes == 1
\* Calls of a run in which a system call of the write fails.
MaxFaults == 1
\* Callers that call the core at the same time.
MaxCallers == 2
\* Runs of each export flow of the frontend.
MaxRuns == 2
\* Values the user changes in the planner.
MaxChanges == 3

\* ---------------------------------------------------------------- calendar

\* A date <<y, m, d>> stands for the string time.Format("2006-01-02") makes of
\* it; the window of the model straddles a year end, so that the order of the
\* strings is decided by each of the three fields in turn.
FirstDay == <<2024, 12, 30>>

IsLeap(y) == (y % 4 = 0 /\ y % 100 # 0) \/ y % 400 = 0

DaysInMonth(y, m) ==
    IF m = 2 THEN (IF IsLeap(y) THEN 29 ELSE 28)
    ELSE IF m \in {4, 6, 9, 11} THEN 30 ELSE 31

NextDay(dt) ==
    IF dt[3] < DaysInMonth(dt[1], dt[2]) THEN <<dt[1], dt[2], dt[3] + 1>>
    ELSE IF dt[2] < 12 THEN <<dt[1], dt[2] + 1, 1>>
    ELSE <<dt[1] + 1, 1, 1>>

RECURSIVE AddDays(_, _)
AddDays(dt, n) == IF n = 0 THEN dt ELSE AddDays(NextDay(dt), n - 1)

\* The days of the model: the day before the first start of the program, the
\* days the clock can reach, and one day after them.
Dates == {AddDays(FirstDay, n) : n \in 0..(MaxDays + 2)}

\* The first value of time.Now().
StartDay == NextDay(FirstDay)
LastDay == AddDays(StartDay, MaxDays)

\* LoadWeek(startDate) and GetWeeklyReport(startDate): the Mondays of the weeks
\* that hold the year end of the model, the end of a leap and of a common
\* February, and the end of a month of 30 days.
ArgWeekStarts ==
    {FirstDay, <<2024, 12, 23>>, <<2024, 2, 26>>, <<2025, 2, 24>>, <<2024, 4, 29>>}

\* GetMonthlyReport(year, month): the month of the first days of the model, of
\* 31 days, a month of 30 days and one of 28.
ArgMonths == {<<2024, 12>>, <<2024, 11>>, <<2025, 2>>}

\* The days the reads above look at.
ReportDates ==
    {AddDays(ws, i) : ws \in ArgWeekStarts, i \in 0..6}
      \cup UNION {{<<ym[1], ym[2], day>> : day \in 1..DaysInMonth(ym[1], ym[2])} :
                    ym \in ArgMonths}

\* The days of earlier runs of the program, as the data file of a later run
\* can hold them: two templates were created on HistoryCreated; three more
\* were added on HistoryAdded and deleted on HistoryDeleted, four days later
\* and in the next month.
HistoryCreated == <<2024, 2, 1>>
HistoryAdded == <<2024, 6, 29>>
HistoryDeleted == <<2024, 7, 3>>
HistoryStamps == {HistoryCreated, HistoryAdded, HistoryDeleted}

\* The days such a file can hold a record of: one before any template, one in
\* the second block of March, the next to last day of June, the first four
\* days of July, one in September.
HistoryDays ==
    {<<2024, 1, 15>>, <<2024, 3, 10>>, <<2024, 6, 29>>, <<2024, 7, 1>>, <<2024, 7, 2>>,
     <<2024, 7, 3>>, <<2024, 7, 4>>, <<2024, 9, 10>>}

\* The days a file of the old format names.
LegacyDays == {<<2024, 1, 1>>, <<2024, 1, 2>>}

\* ----------------------------------------------------------------- strings

\* n as w decimal digits (ASCII codes), most significant first.
RECURSIVE Digits(_, _)
Digits(n, w) == IF w = 0 THEN <<>> ELSE Append(Digits(n \div 10, w - 1), 48 + (n % 10))

\* time.Format("2006-01-02"): YYYY-MM-DD as a sequence of bytes.
FormatDate(dt) == Digits(dt[1], 4) \o <<45>> \o Digits(dt[2], 2) \o <<45>> \o Digits(dt[3], 2)

\* Go's s < t on strings: the order of the bytes.
RECURSIVE StrLess(_, _)
StrLess(s, t) ==
    IF t = <<>> THEN FALSE
    ELSE IF s = <<>> THEN TRUE
    ELSE IF Head(s) # Head(t) THEN Head(s) < Head(t)
    ELSE StrLess(Tail(s), Tail(t))

\* The number the decimal digits s spell, -1 when a byte is no digit.
RECURSIVE Atoi(_)
Atoi(s) ==
    IF s = <<>> THEN 0
    ELSE LET hi == Atoi(SubSeq(s, 1, Len(s) - 1))
             c == s[Len(s)]
         IN  IF hi < 0 \/ c < 48 \/ c > 57 THEN -1 ELSE 10 * hi + (c - 48)

\* time.Parse("2006-01-02", s): <<date>>, or <<>> for the error it returns on
\* anything but four, two and two digits with dashes that name a day of the
\* calendar.
ParseDate(s) ==
    IF Len(s) # 10 \/ s[5] # 45 \/ s[8] # 45 THEN <<>>
    ELSE LET y == Atoi(SubSeq(s, 1, 4))
             m == Atoi(SubSeq(s, 6, 7))
             d == Atoi(SubSeq(s, 9, 10))
         IN  IF y < 0 \/ m < 1 \/ m > 12 \/ d < 1 THEN <<>>
             ELSE IF d > DaysInMonth(y, m) THEN <<>>
             ELSE << <<y, m, d>> >>

\* The strings of the model's dates, made once.
DateKey ==
    [dt \in Dates \cup ReportDates \cup HistoryStamps \cup HistoryDays \cup LegacyDays |->
       FormatDate(dt)]

\* a <= b and a > b on the strings of two dates, a one a template can hold,
\* made once for every pair.
KeyLE ==
    [a \in Dates \cup HistoryStamps |-> [b \in DOMAIN DateKey |->
        DateKey[a] = DateKey[b] \/ StrLess(DateKey[a], DateKey[b])]]
KeyGT ==
    [a \in Dates \cup HistoryStamps |-> [b \in DOMAIN DateKey |->
        StrLess(DateKey[b], DateKey[a])]]

\* a <= b and a > b on two date strings.
DateLE(a, b) == KeyLE[a][b]
DateGT(a, b) == KeyGT[a][b]

\* -------------------------------------------------------------- data model

\* DeletedAt *string: <<>> is nil, <<dt>> points to dt.
Nil == <<>>
Ptr(v) == <<v>>

\* TaskTemplate
TaskTemplate(id, name, type, order, createdAt, deletedAt) ==
    [ID |-> id, Name |-> name, Type |-> type, Order |-> order,
     CreatedAt |-> createdAt, DeletedAt |-> deletedAt]

\* A map with no key (a Go map is a function of its keys).
EmptyMap == <<>>

\* NewApp: the document of a constructed App.
NewAppData ==
    [Templates |-> <<>>, Days |-> EmptyMap, ExportPath |-> "", ExportHistory |-> EmptyMap]

\* m[k] = v of a Go map.
MapSet(m, k, v) == [x \in (DOMAIN m) \cup {k} |-> IF x = k THEN v ELSE m[x]]

\* m[k] of a Go map of ints: the zero value when k is no key.
MapGet(m, k) == IF k \in DOMAIN m THEN m[k] ELSE 0

\* uuid.New().String(): the n-th identifier drawn; no two draws agree.
Uuids == <<"u1", "u2", "u3", "u4", "u5", "u6", "u7", "u8", "u9", "u10", "u11", "u12">>
UuidOf(n) == Uuids[n]

\* ------------------------------------------------------------------- reads

\* sort.Slice(s, by Order): on fewer than 12 elements an insertion sort.
RECURSIVE InsertByOrder(_, _)
InsertByOrder(s, t) ==
    IF s = <<>> THEN <<t>>
    ELSE IF t.Order < s[Len(s)].Order
         THEN Append(InsertByOrder(SubSeq(s, 1, Len(s) - 1), t), s[Len(s)])
         ELSE Append(s, t)

\* No sort: the list in the order of a.data.Templates.
StoredOrder(s) == s

RECURSIVE SortByOrder(_)
SortByOrder(s) ==
    IF s = <<>> THEN <<>>
    ELSE InsertByOrder(SortByOrder(SubSeq(s, 1, Len(s) - 1)), s[Len(s)])

\* The copy of t the read loops hand out: an empty Type reads "binary".
DefaultType(t) == IF t.Type = "" THEN [t EXCEPT !.Type = "binary"] ELSE t

RECURSIVE MapSeq(_, _)
MapSeq(s, i) == IF i > Len(s) THEN <<>> ELSE <<DefaultType(s[i])>> \o MapSeq(s, i + 1)

\* GetTaskTemplates
GetTaskTemplatesOf(d) ==
    SortByOrder(SelectSeq(MapSeq(d.Templates, 1), LAMBDA t : t.DeletedAt = Nil))

\* The test with a template still valid on the day of its deletion.
ValidOnThroughDeletion(t, date) ==
    /\ DateLE(t.CreatedAt, date)
    /\ (t.DeletedAt = Nil \/ DateGT(t.DeletedAt[1], date) \/ t.DeletedAt[1] = date)

\* The test of GetTasksForDate and getTasksForDateLocked on one template.
ValidOn(t, date) ==
    /\ DateLE(t.CreatedAt, date)
    /\ (t.DeletedAt = Nil \/ DateGT(t.DeletedAt[1], date))

\* getTasksForDateLocked
getTasksForDateLocked(d, date) == SelectSeq(d.Templates, LAMBDA t : ValidOn(t, date))

\* GetTasksForDate
GetTasksForDateOf(d, date) ==
    SortByOrder(SelectSeq(MapSeq(d.Templates, 1), LAMBDA t : ValidOn(t, date)))

\* LoadDay: a copy of the record, or a new empty map.
\* A LoadDay that, for a day without a record, returns a 0 for every task
\* valid on it.
LoadDayFilled(d, date) ==
    IF date \in DOMAIN d.Days THEN d.Days[date]
    ELSE [id \in {d.Templates[i].ID :
                     i \in {j \in DOMAIN d.Templates : ValidOn(d.Templates[j], date)}} |-> 0]

LoadDayOf(d, date) == IF date \in DOMAIN d.Days THEN d.Days[date] ELSE EmptyMap

\* ----------------------------------------------------------------- reports

\* A float64 of the reports is modelled by the exact fraction <<n, d>> it
\* stands for, d > 0, in lowest terms.
RECURSIVE GCD(_, _)
GCD(a, b) == IF b = 0 THEN a ELSE GCD(b, a % b)

Rat(n, d) ==
    LET g == GCD(IF n < 0 THEN -n ELSE n, d)
    IN  <<n \div g, d \div g>>

Zero == Rat(0, 1)
RatAdd(a, b) == Rat(a[1] * b[2] + b[1] * a[2], a[2] * b[2])
RatDiv(a, k) == Rat(a[1], a[2] * k)
RatLess(a, b) == a[1] * b[2] < b[1] * a[2]

\* The inner loop of the reports: the tasks of tasksForDate whose value in
\* dayTasks is above 0, counted whatever of the two types they have.
Completed(tasksForDate, dayTasks) ==
    Cardinality({i \in DOMAIN tasksForDate :
                   /\ DefaultType(tasksForDate[i]).Type \in {"binary", "count"}
                   /\ MapGet(dayTasks, tasksForDate[i].ID) > 0})

\* A day percentage that counts every positive value of the record, whether
\* or not its task is valid on the day.
DayPercentageOfRecord(d, date) ==
    LET tasksForDate == getTasksForDateLocked(d, date)
    IN  IF date \notin DOMAIN d.Days \/ Len(tasksForDate) = 0 THEN <<>>
        ELSE <<Rat(Cardinality({id \in DOMAIN d.Days[date] : d.Days[date][id] > 0}) * 100,
                   Len(tasksForDate))>>

\* The percentage the three reports compute for a day, each with the same
\* code: <<>> when no task is valid on it or it has no record, else
\* <<completed / taskCount * 100>>.
DayPercentage(d, date) ==
    LET tasksForDate == getTasksForDateLocked(d, date)
    IN  IF date \notin DOMAIN d.Days \/ Len(tasksForDate) = 0 THEN <<>>
        ELSE <<Rat(Completed(tasksForDate, d.Days[date]) * 100, Len(tasksForDate))>>

\* What a day adds to the total of a week.
DayValue(d, date) ==
    LET p == DayPercentage(d, date)
    IN  IF p = <<>> THEN Zero ELSE p[1]

RECURSIVE SumRat(_)
SumRat(s) == IF s = <<>> THEN Zero ELSE RatAdd(SumRat(SubSeq(s, 1, Len(s) - 1)), s[Len(s)])

\* A weekly average over the days that have a percentage.
WeeklyAverageOfDataDays(d, t, daily) ==
    LET n == Cardinality({i \in 1..7 : DayPercentage(d, AddDays(t, i - 1)) # <<>>})
    IN  IF n = 0 THEN Zero ELSE RatDiv(SumRat(daily), n)

\* total / 7.0 of GetWeeklyReport.
WeeklyAverage(d, t, daily) == RatDiv(SumRat(daily), 7)

\* GetWeeklyReport
GetWeeklyReportOf(d, startDate) ==
    LET t == ParseDate(startDate)
    IN  IF t = <<>> THEN [dailyPercentages |-> <<>>, weeklyAverage |-> Zero]
        ELSE LET daily == [i \in 1..7 |-> DayValue(d, AddDays(t[1], i - 1))]
             IN  [dailyPercentages |-> daily, weeklyAverage |-> WeeklyAverage(d, t[1], daily)]

\* a.Before(b) on two days at 00:00 UTC.
TimeBefore(a, b) ==
    \/ a[1] < b[1]
    \/ a[1] = b[1] /\ a[2] < b[2]
    \/ a[1] = b[1] /\ a[2] = b[2] /\ a[3] < b[3]

\* t.AddDate(0, 0, -1)
PrevDay(dt) ==
    IF dt[3] > 1 THEN <<dt[1], dt[2], dt[3] - 1>>
    ELSE IF dt[2] > 1 THEN <<dt[1], dt[2] - 1, DaysInMonth(dt[1], dt[2] - 1)>>
    ELSE <<dt[1] - 1, 12, 31>>

\* firstDay.AddDate(0, 1, -1) for the first day of a month: the day before
\* the first day of the month after it.
LastDayOf(firstDay) ==
    PrevDay(IF firstDay[2] = 12 THEN <<firstDay[1] + 1, 1, 1>>
            ELSE <<firstDay[1], firstDay[2] + 1, 1>>)

\* The inner loop of GetMonthlyReport from its i-th turn on: up to seven days
\* from currentDay, none after lastDay.
RECURSIVE WeekOfMonth(_, _, _, _, _, _)
WeekOfMonth(d, currentDay, lastDay, i, weekTotal, daysInWeek) ==
    IF i < 7 /\ ~TimeBefore(lastDay, currentDay)
    THEN WeekOfMonth(d, NextDay(currentDay), lastDay, i + 1,
                     RatAdd(weekTotal, DayValue(d, currentDay)), daysInWeek + 1)
    ELSE [currentDay |-> currentDay, weekTotal |-> weekTotal, daysInWeek |-> daysInWeek]

\* A block average over the days of the block that have a percentage.
BlockAverageOfDataDays(d, first, daysInWeek, weekTotal) ==
    LET n == Cardinality({i \in 1..daysInWeek : DayPercentage(d, AddDays(first, i - 1)) # <<>>})
    IN  IF n = 0 THEN Zero ELSE RatDiv(weekTotal, n)

\* weekTotal / float64(daysInWeek) for the block that starts on day first.
BlockAverage(d, first, daysInWeek, weekTotal) == RatDiv(weekTotal, daysInWeek)

\* The outer loop of GetMonthlyReport from currentDay on.
RECURSIVE WeeklyAverages(_, _, _)
WeeklyAverages(d, currentDay, lastDay) ==
    IF TimeBefore(lastDay, currentDay) THEN <<>>
    ELSE LET w == WeekOfMonth(d, currentDay, lastDay, 0, Zero, 0)
         IN  (IF w.daysInWeek > 0
              THEN <<BlockAverage(d, currentDay, w.daysInWeek, w.weekTotal)>>
              ELSE <<>>) \o WeeklyAverages(d, w.currentDay, lastDay)

\* A trend for which a difference of 10 is already a rise or a fall.
TrendDirectionInclusive(weeklyAverages) ==
    IF Len(weeklyAverages) >= 2
    THEN LET first == weeklyAverages[1]
             last_ == weeklyAverages[Len(weeklyAverages)]
         IN  IF ~RatLess(last_, RatAdd(first, Rat(10, 1))) THEN "up"
             ELSE IF ~RatLess(RatAdd(first, Rat(-10, 1)), last_) THEN "down"
             ELSE "stable"
    ELSE "stable"

\* trendDirection of GetMonthlyReport.
TrendDirection(weeklyAverages) ==
    IF Len(weeklyAverages) >= 2
    THEN LET first == weeklyAverages[1]
             last_ == weeklyAverages[Len(weeklyAverages)]
         IN  IF RatLess(RatAdd(first, Rat(10, 1)), last_) THEN "up"
             ELSE IF RatLess(last_, RatAdd(first, Rat(-10, 1))) THEN "down"
             ELSE "stable"
    ELSE "stable"

\* GetMonthlyReport, for a month of 1..12.
GetMonthlyReportOf(d, year, month) ==
    LET firstDay == <<year, month, 1>>
        weeklyAverages == WeeklyAverages(d, firstDay, LastDayOf(firstDay))
    IN  [weeklyAverages |-> weeklyAverages, trendDirection |-> TrendDirection(weeklyAverages)]

\* dailyPercentages of GetYearlyReport for one month, from currentDay on: the
\* percentages of the days that have one.
RECURSIVE DailyPercentages(_, _, _)
DailyPercentages(d, currentDay, lastDay) ==
    IF TimeBefore(lastDay, currentDay) THEN <<>>
    ELSE DayPercentage(d, currentDay) \o DailyPercentages(d, NextDay(currentDay), lastDay)

RatSub(a, b) == Rat(a[1] * b[2] - b[1] * a[2], a[2] * b[2])
RatMul(a, b) == Rat(a[1] * b[1], a[2] * b[2])

\* dailyPercentages of GetYearlyReport for a month of 1..12.
MonthList(d, year, month) ==
    DailyPercentages(d, <<year, month, 1>>, LastDayOf(<<year, month, 1>>))

\* A monthly average over the days above 0% only.
MonthAverageOfPositive(dailyPercentages) ==
    LET positive == SelectSeq(dailyPercentages, LAMBDA p : RatLess(Zero, p))
    IN  IF positive = <<>> THEN Zero ELSE RatDiv(SumRat(positive), Len(positive))

\* avg of GetYearlyReport: sum / float64(len(dailyPercentages)), for a list
\* that is not empty.
MonthAverage(dailyPercentages) == RatDiv(SumRat(dailyPercentages), Len(dailyPercentages))

\* The loop variance += diff * diff.
RECURSIVE SumSquares(_, _)
SumSquares(s, avg) ==
    IF s = <<>> THEN Zero
    ELSE LET diff == RatSub(s[Len(s)], avg)
         IN  RatAdd(SumSquares(SubSeq(s, 1, Len(s) - 1), avg), RatMul(diff, diff))

\* variance / float64(len(dailyPercentages)), for a list that is not empty.
MonthVariance(dailyPercentages) ==
    RatDiv(SumSquares(dailyPercentages, MonthAverage(dailyPercentages)), Len(dailyPercentages))

\* A scan for the most consistent month in which a month of the same
\* variance takes the place of the one found before it.
NotHigherVariance(variance, lowestVariance) == ~RatLess(lowestVariance, variance)

\* variance < lowestVariance
LowerVariance(variance, lowestVariance) == RatLess(variance, lowestVariance)

\* The loop over monthlyVariances from index i on (1-based here), with the
\* mostConsistent and lowestVariance it has reached; lowestVariance starts
\* at -1.
RECURSIVE MostConsistent(_, _, _, _, _)
MostConsistent(monthlyAverages, monthlyVariances, i, mostConsistent, lowestVariance) ==
    IF i > Len(monthlyVariances) THEN mostConsistent
    ELSE IF /\ RatLess(Zero, monthlyAverages[i])
            /\ (RatLess(lowestVariance, Zero)
                  \/ LowerVariance(monthlyVariances[i], lowestVariance))
         THEN MostConsistent(monthlyAverages, monthlyVariances, i + 1, i - 1,
                             monthlyVariances[i])
         ELSE MostConsistent(monthlyAverages, monthlyVariances, i + 1, mostConsistent,
                             lowestVariance)

\* GetYearlyReport: a month with an empty list keeps the zero average and
\* variance of make([]float64, 12) and adds nothing to yearTotal; validMonths
\* counts the months whose list is not empty.
GetYearlyReportOf(d, year) ==
    LET lists == [m \in 1..12 |-> MonthList(d, year, m)]
        monthlyAverages ==
            [m \in 1..12 |-> IF Len(lists[m]) > 0 THEN MonthAverage(lists[m]) ELSE Zero]
        monthlyVariances ==
            [m \in 1..12 |-> IF Len(lists[m]) > 0 THEN MonthVariance(lists[m]) ELSE Zero]
        yearTotal == SumRat(monthlyAverages)
        validMonths == Cardinality({m \in 1..12 : Len(lists[m]) > 0})
    IN  [monthlyAverages |-> monthlyAverages,
         mostConsistentMonth |->
             MostConsistent(monthlyAverages, monthlyVariances, 1, 0, Rat(-1, 1)),
         yearTotal |-> IF validMonths > 0 THEN RatDiv(yearTotal, validMonths) ELSE Zero]

\* ------------------------------------------------------------- persistence

\* A JSON number.
JNumber(n) == [tag |-> "number", num |-> n]

\* json.Marshal of a TaskTemplate, a JSON object: "type" and "deletedAt" carry
\* omitempty.
MarshalTemplate(t) ==
    [k \in {"id", "name", "order", "createdAt"}
             \cup (IF t.Type = "" THEN {} ELSE {"type"})
             \cup (IF t.DeletedAt = Nil THEN {} ELSE {"deletedAt"}) |->
       CASE k = "id" -> t.ID
         [] k = "name" -> t.Name
         [] k = "type" -> t.Type
         [] k = "order" -> t.Order
         [] k = "createdAt" -> t.CreatedAt
         [] k = "deletedAt" -> t.DeletedAt[1]]

\* json.MarshalIndent(a.data): "exportPath" and "exportHistory" carry omitempty.
Marshal(d) ==
    [k \in {"templates", "days"}
             \cup (IF d.ExportPath = "" THEN {} ELSE {"exportPath"})
             \cup (IF DOMAIN d.ExportHistory = {} THEN {} ELSE {"exportHistory"}) |->
       CASE k = "templates" ->
              [i \in DOMAIN d.Templates |-> MarshalTemplate(d.Templates[i])]
         [] k = "days" ->
              [dt \in DOMAIN d.Days |->
                 [id \in DOMAIN d.Days[dt] |-> JNumber(d.Days[dt][id])]]
         [] k = "exportPath" -> d.ExportPath
         [] k = "exportHistory" -> d.ExportHistory]

\* An Unmarshal that does not read "deletedAt".
UnmarshalTemplateLive(o) ==
    TaskTemplate(o.id, o.name,
                 IF "type" \in DOMAIN o THEN o.type ELSE "",
                 o.order, o.createdAt, Nil)

\* json.Unmarshal into a TaskTemplate: an absent key leaves the zero value.
UnmarshalTemplate(o) ==
    TaskTemplate(o.id, o.name,
                 IF "type" \in DOMAIN o THEN o.type ELSE "",
                 o.order, o.createdAt,
                 IF "deletedAt" \in DOMAIN o THEN Ptr(o.deletedAt) ELSE Nil)

\* The switch of loadData on one cell of a day: its integer, or no entry.
CellKept(c) == c.tag \in {"bool", "number"}

\* The other JSON values a cell of a file can spell: a boolean, a number with
\* a fraction (num / den, den > 1), a string, null, an array, an object.
JBool(b) == [tag |-> "bool", val |-> b]
JFraction(n, d) == [tag |-> "number", num |-> n, den |-> d]
JString(s) == [tag |-> "string", val |-> s]
JNull == [tag |-> "null"]
JArray == [tag |-> "array"]
JObject == [tag |-> "object"]

\* int(v) of the float64 num / den: the fraction is cut off, towards zero.
FloatToInt(num, den) == IF num >= 0 THEN num \div den ELSE -((-num) \div den)

\* A conversion that rounds a number to the nearest integer.
CellIntRounding(c) ==
    IF c.tag = "bool" THEN (IF c.val THEN 1 ELSE 0)
    ELSE IF "den" \in DOMAIN c
         THEN (IF c.num >= 0 THEN (2 * c.num + c.den) \div (2 * c.den)
               ELSE -((2 * (-c.num) + c.den) \div (2 * c.den)))
    ELSE c.num

\* The integer the switch stores for a cell it keeps.
CellInt(c) ==
    IF c.tag = "bool" THEN (IF c.val THEN 1 ELSE 0)
    ELSE IF "den" \in DOMAIN c THEN FloatToInt(c.num, c.den)
    ELSE c.num

\* The current-schema branch of loadData on the parsed root object.
LoadWire(root) ==
    LET tpls == IF "templates" \in DOMAIN root THEN root.templates ELSE <<>>
        days == IF "days" \in DOMAIN root THEN root.days ELSE EmptyMap
    IN  [Templates |-> [i \in DOMAIN tpls |-> DefaultType(UnmarshalTemplate(tpls[i]))],
         Days |-> [dt \in DOMAIN days |->
                     [id \in {x \in DOMAIN days[dt] : CellKept(days[dt][x])} |->
                        CellInt(days[dt][id])]],
         ExportPath |-> IF "exportPath" \in DOMAIN root THEN root.exportPath ELSE "",
         ExportHistory |-> IF "exportHistory" \in DOMAIN root
                           THEN root.exportHistory ELSE EmptyMap]

\* A file: <<>> when the path holds none, <<bytes>> otherwise.
NoFile == <<>>
FileOf(bytes) == <<bytes>>

\* The bytes of a file are written as the JSON value they spell.  Three kinds
\* of bytes are no output of Marshal: bytes that spell no JSON value; bytes
\* os.ReadFile cannot get at; and the object of the old format, from dates to
\* arrays of booleans, which is held under one field because its keys are
\* dates of the model and no strings.
Garbage == [garbage |-> TRUE]
Unreadable == [unreadable |-> TRUE]
LegacyBytes(m) == [legacy |-> m]

\* os.ReadFile: <<bytes>>, or <<>> for its error.
ReadFile(file) ==
    IF file = NoFile THEN <<>>
    ELSE IF "unreadable" \in DOMAIN file[1] THEN <<>>
    ELSE file

\* The keys of the current schema that loadData finds in the root object of
\* the bytes; none when they spell no object.
KnownKeys(bytes) ==
    IF "garbage" \in DOMAIN bytes \/ "legacy" \in DOMAIN bytes THEN {}
    ELSE DOMAIN bytes \cap {"templates", "days", "exportPath", "exportHistory"}

\* json.Unmarshal of the file into a map[string][]bool, as loadData and
\* migrateOldData try it: <<map>>, or <<>> when the file cannot be read or the
\* Unmarshal fails.  An object of the current schema fails on its "days",
\* "exportPath" and "exportHistory" and on a "templates" that is not empty.
OldFormatOf(file) ==
    LET read == ReadFile(file)
    IN  IF read = <<>> THEN <<>>
        ELSE IF "garbage" \in DOMAIN read[1] THEN <<>>
        ELSE IF "legacy" \in DOMAIN read[1] THEN <<read[1].legacy>>
        ELSE IF DOMAIN read[1] = {"templates"} /\ read[1].templates = <<>>
             THEN <<[templates |-> <<>>]>>
        ELSE <<>>

\* loadData: the document in memory after it, from the document d before it.
\* The objects of the current schema in the model have members of the types
\* of the schema, so that the Unmarshal into the wire struct succeeds.
loadData(d, file) ==
    LET read == ReadFile(file)
    IN  IF read = <<>> THEN d
        ELSE IF KnownKeys(read[1]) # {} THEN LoadWire(read[1])
        ELSE IF OldFormatOf(file) # <<>> THEN [d EXCEPT !.Days = EmptyMap]
        ELSE d

\* A migration whose templates are dated long before the day it runs.
MigrationTasksBackdated(now) ==
    << TaskTemplate("task-1", "Task 1", "binary", 0, HistoryCreated, Nil),
       TaskTemplate("task-2", "Task 2", "binary", 1, HistoryCreated, Nil),
       TaskTemplate("task-3", "Task 3", "binary", 2, HistoryCreated, Nil),
       TaskTemplate("task-4", "Task 4", "binary", 3, HistoryCreated, Nil) >>

\* The templates migrateOldData synthesizes.
MigrationTasks(now) ==
    << TaskTemplate("task-1", "Task 1", "binary", 0, now, Nil),
       TaskTemplate("task-2", "Task 2", "binary", 1, now, Nil),
       TaskTemplate("task-3", "Task 3", "binary", 2, now, Nil),
       TaskTemplate("task-4", "Task 4", "binary", 3, now, Nil) >>

\* A migration that gives every template an entry, 0 past the end of the list.
MigratedDayPadded(tasks, checks) ==
    [id \in {tasks[i].ID : i \in DOMAIN tasks} |->
       LET i == CHOOSE j \in DOMAIN tasks : tasks[j].ID = id
       IN  IF i \in DOMAIN checks /\ checks[i] THEN 1 ELSE 0]

\* The loop of migrateOldData over the booleans of one date: position i makes
\* an entry for template i when i < len(defaultTasks).
MigratedDay(tasks, checks) ==
    [id \in {tasks[i].ID : i \in (DOMAIN checks) \cap (DOMAIN tasks)} |->
       LET i == CHOOSE j \in DOMAIN tasks : tasks[j].ID = id
       IN  IF checks[i] THEN 1 ELSE 0]

\* migrateOldData without its save: <<the document after it, whether it saves>>.
migrateOldData(d, file, now) ==
    LET old == OldFormatOf(file)
    IN  IF old = <<>> THEN <<d, FALSE>>
        ELSE IF DOMAIN old[1] = {} THEN <<d, FALSE>>
        ELSE IF \A k \in DOMAIN old[1] : Len(old[1][k]) = 0 THEN <<d, FALSE>>
        ELSE LET tasks == MigrationTasks(now)
                 newDays == [k \in DOMAIN old[1] |-> MigratedDay(tasks, old[1][k])]
             IN  <<[Templates |-> tasks, Days |-> newDays,
                    ExportPath |-> "", ExportHistory |-> EmptyMap], TRUE>>

\* The templates createDefaultTasks makes, with the identifiers drawn after the
\* n-th.
DefaultTasks(now, n) ==
    << TaskTemplate(UuidOf(n + 1), "Morning Routine", "binary", 0, now, Nil),
       TaskTemplate(UuidOf(n + 2), "Deep Work", "binary", 1, now, Nil),
       TaskTemplate(UuidOf(n + 3), "Exercise", "binary", 2, now, Nil),
       TaskTemplate(UuidOf(n + 4), "Evening Review", "binary", 3, now, Nil) >>

\* ------------------------------------------------------------ atomic write

\* The temporary file as os.CreateTemp leaves it, as a failed Write leaves it,
\* and with all of data written.
TmpEmpty == [state |-> "empty"]
TmpPartial == [state |-> "partial"]
TmpFull(bytes) == [state |-> "full", bytes |-> bytes]

\* atomicWriteFile at its entry: the target as it is, no temporary file, no error.
WStart(target) == [pc |-> "create", target |-> target, tmp |-> NoFile, err |-> ""]

\* One step of atomicWriteFile; fails is the set of the system calls that fail.
\* "abort" is the Close and Remove of a failed Write, Sync or Close; "cleanup"
\* the Remove after a failed rename.  err is the error the function holds.
WStep(w, bytes, fails) ==
    CASE w.pc = "create" ->
           IF "create" \in fails THEN [w EXCEPT !.pc = "done", !.err = "create"]
           ELSE [w EXCEPT !.pc = "write", !.tmp = FileOf(TmpEmpty)]
      [] w.pc = "write" ->
           IF "write" \in fails
           THEN [w EXCEPT !.pc = "abort", !.err = "write", !.tmp = FileOf(TmpPartial)]
           ELSE [w EXCEPT !.pc = "sync", !.tmp = FileOf(TmpFull(bytes))]
      [] w.pc = "sync" ->
           IF "sync" \in fails THEN [w EXCEPT !.pc = "abort", !.err = "sync"]
           ELSE [w EXCEPT !.pc = "close"]
      [] w.pc = "close" ->
           IF "close" \in fails THEN [w EXCEPT !.pc = "abort", !.err = "close"]
           ELSE [w EXCEPT !.pc = "rename"]
      [] w.pc = "abort" -> [w EXCEPT !.pc = "done", !.tmp = NoFile]
      [] w.pc = "rename" ->
           IF "rename" \in fails THEN [w EXCEPT !.pc = "stat", !.err = "rename"]
           ELSE [w EXCEPT !.pc = "done", !.target = FileOf(w.tmp[1].bytes), !.tmp = NoFile]
      [] w.pc = "stat" ->
           IF w.target # NoFile THEN [w EXCEPT !.pc = "remove"]
           ELSE [w EXCEPT !.pc = "cleanup"]
      [] w.pc = "remove" ->
           IF "remove" \in fails THEN [w EXCEPT !.pc = "cleanup"]
           ELSE [w EXCEPT !.pc = "rename2", !.target = NoFile]
      [] w.pc = "rename2" ->
           IF "rename2" \in fails THEN [w EXCEPT !.pc = "cleanup", !.err = "rename2"]
           ELSE [w EXCEPT !.pc = "done", !.target = FileOf(w.tmp[1].bytes),
                          !.tmp = NoFile, !.err = ""]
      [] w.pc = "cleanup" -> [w EXCEPT !.pc = "done", !.tmp = NoFile]
      [] OTHER -> w

\* atomicWriteFile from w on: to its return, or (crash) through k steps only.
RECURSIVE RunWrite(_, _, _, _, _)
RunWrite(w, bytes, fails, crash, k) ==
    IF w.pc = "done" \/ (crash /\ k = 0) THEN w
    ELSE RunWrite(WStep(w, bytes, fails), bytes, fails, crash, IF crash THEN k - 1 ELSE k)

\* atomicWriteFile(filename, data) under scenario sc: where it ends, with the
\* target and the temporary file as they then are.
atomicWriteFile(target, bytes, sc) == RunWrite(WStart(target), bytes, sc.fails, sc.crash, sc.steps)

\* A save that writes the templates and the day records only.
saveDataLockedInPart(d, target, sc) ==
    atomicWriteFile(target, Marshal([d EXCEPT !.ExportPath = "", !.ExportHistory = EmptyMap]), sc)

\* saveDataLocked
saveDataLocked(d, target, sc) == atomicWriteFile(target, Marshal(d), sc)

\* No call of saveDataLocked.
NoWrite(target) == [pc |-> "done", target |-> target, tmp |-> NoFile, err |-> ""]

\* The file system's part in a call: which system calls fail, and whether (and
\* after how many steps of the write) the process dies.
Scenario(fails, crash, steps) == [fails |-> fails, crash |-> crash, steps |-> steps]
NoFault == Scenario({}, FALSE, 0)

\* Every way the write can fail and return.
FaultScenarios ==
    {Scenario(f, FALSE, 0) :
        f \in {{"create"}, {"write"}, {"sync"}, {"close"}, {"rename"},
               {"rename", "remove"}, {"rename", "rename2"}}}

\* Every place the process can die in the write: after each step of the
\* faultless path, after a failed Write, and along the fallback.
CrashScenarios ==
    {Scenario({}, TRUE, k) : k \in 1..4}
      \cup {Scenario({"write"}, TRUE, 2)}
      \cup {Scenario({"rename"}, TRUE, k) : k \in 5..7}

\* ------------------------------------------------------------------- state

VARIABLES
    data,        \* a.data, the PlannerData in memory
    dataFile,    \* the file at a.dataPath
    tmps,        \* the plan-tmp-*.json files left in its directory
    today,       \* the date time.Now() gives
    uuidCount,   \* identifiers uuid.New() has drawn
    started,     \* the process runs and startup has returned
    last,        \* the last call: operation, arguments, result
    nops,        \* calls made after startup
    ncrashes,    \* crashes so far
    nfaults,     \* calls so far whose write met a failing system call
    held,        \* the map the caller holds from its last LoadDay, if any
    mu,          \* a.mu: the goroutine that holds it for writing, those for reading
    procs,       \* the calls that run as goroutines of their own, each at its step
    ui           \* the frontend: its state, its calls in flight, the exports it wrote

vars == <<data, dataFile, tmps, today, uuidCount, started, last, nops, ncrashes, nfaults,
          held, mu, procs, ui>>

\* a.mu unlocked: no writer (0), no reader.
MuFree == [writer |-> 0, readers |-> {}]

\* No call runs as a goroutine of its own.
NoProcs == <<>>

\* No frontend is attached.
NoUi == <<>>

\* The record of a call: err is "" for a nil error, else the failed system
\* call; saved tells whether it reached saveDataLocked; crashed that the
\* process died before it returned, and bytes what it had then handed to
\* atomicWriteFile.
Call(op, arg, w, saved, bytes, err, ret) ==
    [op |-> op, arg |-> arg, err |-> IF w.pc = "done" THEN err ELSE "",
     crashed |-> w.pc # "done", saved |-> saved,
     bytes |-> IF saved /\ w.pc # "done" THEN <<bytes>> ELSE <<>>,
     ret |-> IF w.pc = "done" THEN ret ELSE <<>>]

\* The end of a call that leaves document nd in memory, after write w (or
\* NoWrite) under scenario sc: the files are as w left them; a process that
\* died has lost its memory and leaves its temporary file behind.
Return(op, arg, nd, w, sc, saved, err, ret) ==
    /\ saved \/ sc = NoFault
    /\ sc.fails # {} => nfaults < MaxFaults
    /\ sc.crash => ncrashes < MaxCrashes /\ w.pc # "done"
    /\ nfaults' = IF sc.fails # {} THEN nfaults + 1 ELSE nfaults
    /\ dataFile' = w.target
    /\ started' = (w.pc = "done")
    /\ last' = Call(op, arg, w, saved, Marshal(nd), err, ret)
    /\ held' = IF w.pc = "done" THEN held ELSE <<>>
    /\ IF w.pc = "done"
       THEN /\ data' = nd
            /\ UNCHANGED <<tmps, ncrashes>>
       ELSE /\ data' = NewAppData
            /\ tmps' = tmps \cup (IF w.tmp = NoFile THEN {} ELSE {w.tmp[1]})
            /\ ncrashes' = ncrashes + 1

\* A call of an operation: the process runs.
CanCall == started /\ nops < MaxOps

\* The index of the first template with this ID, 0 when there is none.
IndexOfID(tpls, id) ==
    IF \E i \in DOMAIN tpls : tpls[i].ID = id
    THEN CHOOSE i \in DOMAIN tpls : tpls[i].ID = id /\ \A j \in 1..(i - 1) : tpls[j].ID # id
    ELSE 0

Init ==
    /\ data = NewAppData
    /\ dataFile = NoFile
    /\ tmps = {}
    /\ today = StartDay
    /\ uuidCount = 0
    /\ started = FALSE
    /\ last = Call("NewApp", <<>>, NoWrite(NoFile), FALSE, <<>>, "", <<>>)
    /\ nops = 0
    /\ ncrashes = 0
    /\ nfaults = 0
    /\ held = <<>>
    /\ mu = MuFree
    /\ procs = NoProcs
    /\ ui = NoUi

\* ----------------------------------------------------------------- startup

\* A startup that makes the default tasks when no template is live.
NoLiveTemplate(tpls) == \A i \in DOMAIN tpls : tpls[i].DeletedAt # Nil

\* len(a.data.Templates) == 0
NeedsDefaults(tpls) == Len(tpls) = 0

\* startup: loadData, migrateOldData, and createDefaultTasks when no template
\* is there; the saves of the last two drop their errors.  The record of the
\* call holds the file it found at a.dataPath.
Startup(sc) ==
    /\ ~started
    /\ uuidCount + 4 <= Len(Uuids)
    /\ LET loaded == loadData(data, dataFile)
           mig == migrateOldData(loaded, dataFile, today)
           w1 == IF mig[2] THEN saveDataLocked(mig[1], dataFile, sc) ELSE NoWrite(dataFile)
           boot == NeedsDefaults(mig[1].Templates)
           nd == IF boot THEN [mig[1] EXCEPT !.Templates = DefaultTasks(today, uuidCount)]
                 ELSE mig[1]
           w2 == IF boot /\ w1.pc = "done" THEN saveDataLocked(nd, w1.target, sc) ELSE w1
       IN  /\ Return("startup", <<dataFile>>, nd, w2, sc, mig[2] \/ boot, "", <<>>)
           /\ uuidCount' = IF boot THEN uuidCount + 4 ELSE uuidCount
    /\ UNCHANGED <<today, nops>>
    /\ UNCHANGED <<mu, procs, ui>>

\* ---------------------------------------------------------------- registry

\* The loop of AddTask over the templates: the greatest Order, -1 for none.
RECURSIVE MaxOrder(_)
MaxOrder(tpls) ==
    IF tpls = <<>> THEN -1
    ELSE LET m == MaxOrder(SubSeq(tpls, 1, Len(tpls) - 1))
         IN  IF tpls[Len(tpls)].Order > m THEN tpls[Len(tpls)].Order ELSE m

\* An AddTask that stores the task type as it is given.
AddTaskTypeAsGiven(taskType) == taskType

\* The task type AddTask stores for the one it is given.
AddTaskType(taskType) ==
    LET t == IF taskType = "" THEN "binary" ELSE taskType
    IN  IF t # "binary" /\ t # "count" THEN "binary" ELSE t

\* An AddTask that numbers the new template by the count of the templates.
NewTaskByCount(d, name, taskType, id, now) ==
    TaskTemplate(id, name, AddTaskType(taskType), Len(d.Templates), now, Nil)

\* An AddTask that gives the new template the greatest order it finds.
NewTaskAtMax(d, name, taskType, id, now) ==
    TaskTemplate(id, name, AddTaskType(taskType),
                 IF d.Templates = <<>> THEN 0 ELSE MaxOrder(d.Templates), now, Nil)

\* The template AddTask makes in document d on day now, with identifier id.
NewTask(d, name, taskType, id, now) ==
    TaskTemplate(id, name, AddTaskType(taskType), MaxOrder(d.Templates) + 1, now, Nil)

\* The error AddTask returns when its save returned err: nil, whatever err is.
AddTaskErr(err) == ""

\* AddTask
AddTask(name, taskType, sc) ==
    /\ CanCall
    /\ Len(data.Templates) < MaxTemplates
    /\ uuidCount < Len(Uuids)
    /\ LET task == NewTask(data, name, taskType, UuidOf(uuidCount + 1), today)
           nd == [data EXCEPT !.Templates = Append(@, task)]
           w == saveDataLocked(nd, dataFile, sc)
       IN  Return("AddTask", <<name, taskType>>, nd, w, sc, TRUE, AddTaskErr(w.err), <<task>>)
    /\ uuidCount' = uuidCount + 1
    /\ nops' = nops + 1
    /\ UNCHANGED today
    /\ UNCHANGED <<mu, procs, ui>>

\* What a call that leaves document nd and returns what saveDataLocked
\* returns does to the core.
SavingCall(op, arg, nd, sc) ==
    /\ CanCall
    /\ LET w == saveDataLocked(nd, dataFile, sc)
       IN  Return(op, arg, nd, w, sc, TRUE, w.err, <<>>)
    /\ nops' = nops + 1
    /\ UNCHANGED <<today, uuidCount>>

\* A call that leaves document nd and returns what saveDataLocked returns.
Saving(op, arg, nd, sc) ==
    /\ SavingCall(op, arg, nd, sc)
    /\ UNCHANGED <<mu, procs, ui>>

\* A call that finds nothing to change and saves the document all the same.
NoOpSaving(op, arg, sc) == Saving(op, arg, data, sc)

\* A call that returns nil without a save.
NoOp(op, arg, sc) ==
    /\ CanCall
    /\ Return(op, arg, data, NoWrite(dataFile), sc, FALSE, "", <<>>)
    /\ nops' = nops + 1
    /\ UNCHANGED <<today, uuidCount>>
    /\ UNCHANGED <<mu, procs, ui>>

\* A SetTaskType that stores whatever type it is given.
SetTaskTypeUnchecked(id, taskType, sc) ==
    LET i == IndexOfID(data.Templates, id)
    IN  IF i = 0
        THEN NoOp("SetTaskType", <<id, taskType>>, sc)
        ELSE Saving("SetTaskType", <<id, taskType>>,
                    [data EXCEPT !.Templates[i].Type = taskType], sc)

\* SetTaskType
SetTaskType(id, taskType, sc) ==
    LET t == IF taskType = "" THEN "binary" ELSE taskType
        i == IndexOfID(data.Templates, id)
    IN  IF (t # "binary" /\ t # "count") \/ i = 0
        THEN NoOp("SetTaskType", <<id, taskType>>, sc)
        ELSE Saving("SetTaskType", <<id, taskType>>, [data EXCEPT !.Templates[i].Type = t], sc)

\* UpdateTask
UpdateTask(id, name, sc) ==
    LET i == IndexOfID(data.Templates, id)
    IN  IF i = 0
        THEN NoOp("UpdateTask", <<id, name>>, sc)
        ELSE Saving("UpdateTask", <<id, name>>, [data EXCEPT !.Templates[i].Name = name], sc)

\* A DeleteTask that removes the template and its stored values.
DeleteTaskPurging(d, i, now) ==
    [d EXCEPT !.Templates = SubSeq(@, 1, i - 1) \o SubSeq(@, i + 1, Len(@)),
              !.Days = [dt \in DOMAIN @ |->
                          [id \in (DOMAIN @[dt]) \ {d.Templates[i].ID} |-> @[dt][id]]]]

\* A DeleteTask that also takes the values stored under the template away.
DeleteTaskClearing(d, i, now) ==
    [d EXCEPT !.Templates[i].DeletedAt = Ptr(now),
              !.Days = [dt \in DOMAIN @ |->
                          [id \in (DOMAIN @[dt]) \ {d.Templates[i].ID} |-> @[dt][id]]]]

\* The document after DeleteTask found template i on day now.
DeleteTaskData(d, i, now) == [d EXCEPT !.Templates[i].DeletedAt = Ptr(now)]

\* DeleteTask
DeleteTask(id, sc) ==
    LET i == IndexOfID(data.Templates, id)
    IN  IF i = 0
        THEN NoOp("DeleteTask", <<id>>, sc)
        ELSE Saving("DeleteTask", <<id>>, DeleteTaskData(data, i, today), sc)

\* An orderMap that counts the positions from 1.
OrderMapFromOne(ids) ==
    [id \in {ids[i] : i \in DOMAIN ids} |->
       CHOOSE i \in DOMAIN ids : ids[i] = id /\ \A j \in DOMAIN ids : ids[j] = id => j <= i]

\* orderMap of ReorderTasks: each id of the list to its last position, from 0.
OrderMap(ids) ==
    [id \in {ids[i] : i \in DOMAIN ids} |->
       (CHOOSE i \in DOMAIN ids : ids[i] = id /\ \A j \in DOMAIN ids : ids[j] = id => j <= i) - 1]

\* The templates after the second loop of ReorderTasks.
Reordered(tpls, ids) ==
    [i \in DOMAIN tpls |->
       IF tpls[i].ID \in DOMAIN OrderMap(ids)
       THEN [tpls[i] EXCEPT !.Order = OrderMap(ids)[tpls[i].ID]]
       ELSE tpls[i]]

\* ReorderTasks
ReorderTasks(ids, sc) ==
    Saving("ReorderTasks", <<ids>>, [data EXCEPT !.Templates = Reordered(@, ids)], sc)

\* --------------------------------------------------------------- day store

\* A SaveDay that stores no negative value.
SaveDayClamping(d, date, tasks) ==
    [d EXCEPT !.Days = MapSet(@, date, [id \in DOMAIN tasks |->
                                          IF tasks[id] < 0 THEN 0 ELSE tasks[id]])]

\* A SaveDay that merges tasks into the record it finds.
SaveDayMerging(d, date, tasks) ==
    [d EXCEPT !.Days = MapSet(@, date,
                              [id \in (DOMAIN tasks) \cup (DOMAIN LoadDayOf(d, date)) |->
                                 IF id \in DOMAIN tasks THEN tasks[id]
                                 ELSE LoadDayOf(d, date)[id]])]

\* The document after a.data.Days[date] = tasks.
SaveDayData(d, date, tasks) == [d EXCEPT !.Days = MapSet(@, date, tasks)]

\* SaveDay
SaveDay(date, tasks, sc) ==
    Saving("SaveDay", <<date, tasks>>, SaveDayData(data, date, tasks), sc)

\* A LoadWeek with a key for the days that have a record only.
LoadWeekStored(d, startDate) ==
    LET t == ParseDate(startDate)
    IN  IF t = <<>> THEN EmptyMap
        ELSE [dt \in {AddDays(t[1], i) : i \in 0..6} \cap DOMAIN d.Days |-> d.Days[dt]]

\* LoadWeek: no key when startDate does not parse, else the seven days from
\* it on, each with a copy of its record or a new empty map.  A key dt stands
\* for the string date.Format makes of it.
LoadWeekOf(d, startDate) ==
    LET t == ParseDate(startDate)
    IN  IF t = <<>> THEN EmptyMap
        ELSE [dt \in {AddDays(t[1], i) : i \in 0..6} |->
                IF dt \in DOMAIN d.Days THEN d.Days[dt] ELSE EmptyMap]

\* A LoadDay that hands out the stored map itself when there is one.
LoadDayShared(d, date) ==
    [date |-> date, val |-> LoadDayOf(d, date), shared |-> date \in DOMAIN d.Days,
     written |-> FALSE]

\* The map object LoadDay returns: its entries, and whether it is the object
\* stored under a.data.Days[date] (it never is: both branches make a map).
LoadDayResult(d, date) ==
    [date |-> date, val |-> LoadDayOf(d, date), shared |-> FALSE, written |-> FALSE]

\* LoadDay: a read; the caller keeps the map it returns.
LoadDay(date) ==
    /\ CanCall
    /\ held' = <<LoadDayResult(data, date)>>
    /\ last' = Call("LoadDay", <<date>>, NoWrite(dataFile), FALSE, <<>>, "",
                    <<LoadDayOf(data, date)>>)
    /\ nops' = nops + 1
    /\ UNCHANGED <<data, dataFile, tmps, today, uuidCount, started, ncrashes, nfaults>>
    /\ UNCHANGED <<mu, procs, ui>>

\* The caller stores m[id] = v in the map it holds; a map that is also the
\* stored record of its date changes there as well.
CallerWrites(id, v) ==
    /\ started
    /\ held # <<>>
    /\ ~held[1].written
    /\ LET m == MapSet(held[1].val, id, v)
       IN  /\ held' = <<[held[1] EXCEPT !.val = m, !.written = TRUE]>>
           /\ data' = IF held[1].shared /\ held[1].date \in DOMAIN data.Days
                      THEN [data EXCEPT !.Days[held[1].date] = m]
                      ELSE data
    /\ UNCHANGED <<dataFile, tmps, today, uuidCount, started, last, nops, ncrashes, nfaults>>
    /\ UNCHANGED <<mu, procs, ui>>

\* ------------------------------------------------------------------ export

\* SetExportPath
SetExportPath(path, sc) ==
    Saving("SetExportPath", <<path>>, [data EXCEPT !.ExportPath = path], sc)

\* The document after a.data.ExportHistory[weekStart] = today.
MarkWeekExportedData(d, weekStart, now) ==
    [d EXCEPT !.ExportHistory = MapSet(@, weekStart, now)]

\* A MarkWeekExported that keeps the date of a week it finds marked.
MarkWeekExportedOnce(weekStart, sc) ==
    Saving("MarkWeekExported", <<weekStart>>,
           [data EXCEPT !.ExportHistory =
                IF weekStart \in DOMAIN @ THEN @ ELSE MapSet(@, weekStart, today)], sc)

\* MarkWeekExported
MarkWeekExported(weekStart, sc) ==
    Saving("MarkWeekExported", <<weekStart>>, MarkWeekExportedData(data, weekStart, today), sc)

\* IsWeekExported
IsWeekExportedOf(d, weekStart) == weekStart \in DOMAIN d.ExportHistory

\* -------------------------------------------------------------- environment

\* Midnight passes while the program runs.
AdvanceDay ==
    /\ started
    /\ today # LastDay
    /\ today' = NextDay(today)
    /\ UNCHANGED <<data, dataFile, tmps, uuidCount, started, last, nops, ncrashes, nfaults,
                   held, mu, procs, ui>>

\* The process dies between two calls: memory is lost, the files stay.
Crash ==
    /\ started
    /\ ncrashes < MaxCrashes
    /\ started' = FALSE
    /\ data' = NewAppData
    /\ ncrashes' = ncrashes + 1
    /\ last' = Call("crash", <<>>, NoWrite(dataFile), FALSE, <<>>, "", <<>>)
    /\ held' = <<>>
    /\ UNCHANGED <<dataFile, tmps, today, uuidCount, nops, nfaults, mu, procs, ui>>

\* ------------------------------------------------------------------ inputs

\* Task ids the calls name: the first default, the first added task (unknown
\* before it is added) and one that never exists.
ArgIds == {"u1", "u5", "ghost"}
ArgNames == {"Renamed"}
\* SetTaskType(id, taskType): a valid type, an unknown one, an unknown id.
ArgTypeCalls == {<<"u1", "count">>, <<"u1", "bogus">>, <<"ghost", "count">>}
\* ReorderTasks(ids): two of the defaults swapped; a list with an unknown id
\* and one not yet added, that moves the first default behind the others.
ArgOrders == {<<"u2", "u1">>, <<"u5", "ghost", "u2", "u3", "u1">>}
\* SaveDay(date, tasks): the empty mapping, and one with a zero, a negative
\* value and the ids of an unknown task and of one that may be deleted.
ArgTasks == [u1 |-> 0, u5 |-> 2, ghost |-> -1]
ArgDayCalls == {<<FirstDay, EmptyMap>>, <<FirstDay, ArgTasks>>, <<StartDay, ArgTasks>>}
ArgPaths == {"/exports"}
ArgWeeks == {FirstDay}
\* SaveDay(date, tasks) of the day view: on the first day of the program a
\* mapping with a value above 1 for a binary task, a negative value, a zero,
\* no entry for the fourth default task, and positive values for the added
\* task and for an unknown one.
ArgMixed == [u1 |-> 2, u2 |-> -1, u3 |-> 0, u5 |-> 1, ghost |-> 1]
ArgViewDayCalls ==
    {<<FirstDay, EmptyMap>>, <<StartDay, ArgTasks>>, <<StartDay, ArgMixed>>}
\* AddTask(name, taskType): the two types, the empty string, an unknown word.
ArgKinds == {"binary", "count", "", "bogus"}

\* The write of a call of Spec: faultless, or failing in Sync.
SpecScenarios == {NoFault, Scenario({"sync"}, FALSE, 0)}

Next ==
    \/ \E sc \in SpecScenarios : Startup(sc)
    \/ \E n \in {"New"}, sc \in SpecScenarios : AddTask(n, "count", sc)
    \/ \E c \in ArgTypeCalls, sc \in SpecScenarios : SetTaskType(c[1], c[2], sc)
    \/ \E id \in {"u1", "ghost"}, n \in ArgNames, sc \in SpecScenarios : UpdateTask(id, n, sc)
    \/ \E id \in ArgIds, sc \in SpecScenarios : DeleteTask(id, sc)
    \/ \E ids \in ArgOrders, sc \in SpecScenarios : ReorderTasks(ids, sc)
    \/ \E c \in ArgDayCalls, sc \in SpecScenarios : SaveDay(c[1], c[2], sc)
    \/ \E p \in ArgPaths, sc \in SpecScenarios : SetExportPath(p, sc)
    \/ \E wk \in ArgWeeks, sc \in SpecScenarios : MarkWeekExported(wk, sc)
    \/ AdvanceDay

\* The registry, the day store and the export marks in a process that stays
\* up, each save faultless or failing.
Spec == Init /\ [][Next]_vars

\* The calls of CrashSpec: one of each operation.
CrashCalls(sc) ==
    \/ AddTask("New", "count", sc)
    \/ SetTaskType("u1", "count", sc)
    \/ UpdateTask("u1", "Renamed", sc)
    \/ DeleteTask("u1", sc)
    \/ ReorderTasks(<<"u2", "u1">>, sc)
    \/ SaveDay(StartDay, [u1 |-> 1], sc)
    \/ SetExportPath("/exports", sc)
    \/ MarkWeekExported(FirstDay, sc)

CrashNext ==
    \/ \E sc \in {NoFault} \cup FaultScenarios \cup CrashScenarios : Startup(sc)
    \/ \E sc \in {NoFault} \cup FaultScenarios \cup CrashScenarios : CrashCalls(sc)
    \/ Crash

\* The same operations on a file system whose every system call can fail and
\* in a process that can die at every step of a write, and start again.
CrashSpec == Init /\ [][CrashNext]_vars

\* The settings and the day view: tasks added with every kind of type and
\* retyped, deleted, records saved and loaded, the caller changing the maps it
\* was given; all writes faultless.
ViewNext ==
    \/ Startup(NoFault)
    \/ \E k \in ArgKinds : AddTask("New", k, NoFault)
    \/ \E k \in ArgKinds : SetTaskType("u1", k, NoFault)
    \/ DeleteTask("u1", NoFault)
    \/ \E c \in ArgViewDayCalls : SaveDay(c[1], c[2], NoFault)
    \/ \E dt \in {FirstDay, StartDay} : LoadDay(dt)
    \/ CallerWrites("u1", 7)
    \/ AdvanceDay

ViewSpec == Init /\ [][ViewNext]_vars

\* ----------------------------------------------------- files of earlier runs

\* The start of a process on a data path that holds one of files.
StartOn(files) ==
    /\ data = NewAppData
    /\ dataFile \in files
    /\ tmps = {}
    /\ today = StartDay
    /\ uuidCount = 0
    /\ started = FALSE
    /\ last = Call("NewApp", <<>>, NoWrite(NoFile), FALSE, <<>>, "", <<>>)
    /\ nops = 0
    /\ ncrashes = 0
    /\ nfaults = 0
    /\ held = <<>>
    /\ mu = MuFree
    /\ procs = NoProcs
    /\ ui = NoUi

\* The templates of the earlier runs: two that live on, a binary and a count
\* task, and three that lived from HistoryAdded to HistoryDeleted.
HistoryTemplates ==
    << TaskTemplate("h1", "Read", "binary", 0, HistoryCreated, Nil),
       TaskTemplate("h2", "Pages", "count", 1, HistoryCreated, Nil),
       TaskTemplate("h3", "Run", "binary", 2, HistoryAdded, Ptr(HistoryDeleted)),
       TaskTemplate("h4", "Swim", "binary", 3, HistoryAdded, Ptr(HistoryDeleted)),
       TaskTemplate("h5", "Row", "binary", 4, HistoryAdded, Ptr(HistoryDeleted)) >>

\* A record that SaveDay stored for these templates: ids done, the count task
\* with 3, the others at 0.
Checked(ids) ==
    [id \in {"h1", "h2", "h3", "h4", "h5"} |->
       IF id \notin ids THEN 0 ELSE IF id = "h2" THEN 3 ELSE 1]

\* The records of the first days of July a file can hold: none; 60%, 40%, 50%
\* and 50% (three and two of five tasks, then one of two); 20%, 0% and 50%.
JulyChoices ==
    { [dt \in {<<2024, 7, 1>>, <<2024, 7, 2>>, <<2024, 7, 3>>, <<2024, 7, 4>>} |-> <<>>],
      [dt \in {<<2024, 7, 1>>, <<2024, 7, 2>>, <<2024, 7, 3>>, <<2024, 7, 4>>} |->
         IF dt = <<2024, 7, 1>> THEN <<Checked({"h1", "h2", "h3"})>>
         ELSE IF dt = <<2024, 7, 2>> THEN <<Checked({"h1", "h4"})>>
         ELSE IF dt = <<2024, 7, 3>> THEN <<Checked({"h2", "h3"})>>
         ELSE <<Checked({"h1"})>>],
      [dt \in {<<2024, 7, 1>>, <<2024, 7, 2>>, <<2024, 7, 3>>, <<2024, 7, 4>>} |->
         IF dt = <<2024, 7, 1>> THEN <<Checked({"h5"})>>
         ELSE IF dt = <<2024, 7, 2>> THEN <<Checked({})>>
         ELSE IF dt = <<2024, 7, 3>> THEN <<Checked({"h1"})>>
         ELSE <<>>] }

\* What a file holds for each day of HistoryDays but the one of September,
\* <<>> for no record: in January a record from before any template; in March
\* none, 50% or 0%; on June 29 none, 20% or 60%; and the choices of July.
HistoryChoices ==
    { [dt \in HistoryDays \ {<<2024, 9, 10>>} |->
         IF dt = <<2024, 1, 15>> THEN j
         ELSE IF dt = <<2024, 3, 10>> THEN m
         ELSE IF dt = <<2024, 6, 29>> THEN u
         ELSE l[dt]] :
        j \in {<<>>, <<Checked({"h1"})>>},
        m \in {<<>>, <<Checked({"h1"})>>, <<Checked({})>>},
        u \in {<<>>, <<Checked({"h3"})>>, <<Checked({"h1", "h2", "h3"})>>},
        l \in JulyChoices }

\* The document an earlier run left of such a choice, with an export
\* directory and an exported week.
HistoryDoc(c) ==
    [Templates |-> HistoryTemplates,
     Days |-> [dt \in {x \in DOMAIN c : c[x] # <<>>} |-> c[dt][1]],
     ExportPath |-> "/exports",
     ExportHistory |-> [wk \in {<<2024, 6, 24>>} |-> <<2024, 6, 30>>]]

\* The files the earlier runs wrote.
HistoryFiles == {FileOf(Marshal(HistoryDoc(c))) : c \in HistoryChoices}

\* SaveDay(date, tasks) on the day of September: 50%, 0% and 100%.
ArgReportDayCalls ==
    {<<<<2024, 9, 10>>, Checked({"h1"})>>, <<<<2024, 9, 10>>, Checked({})>>,
     <<<<2024, 9, 10>>, Checked({"h1", "h2"})>>}

ReportInit == StartOn(HistoryFiles)

ReportNext ==
    \/ Startup(NoFault)
    \/ \E c \in ArgReportDayCalls : SaveDay(c[1], c[2], NoFault)

\* The program on the file of a year of use, with the records of one more day
\* saved: the documents the monthly and the yearly report are about.
ReportSpec == ReportInit /\ [][ReportNext]_vars

\* A document the core wrote whose templates are all deleted.
AllDeletedDoc ==
    [Templates |-> [i \in DOMAIN HistoryTemplates |->
                      [HistoryTemplates[i] EXCEPT !.DeletedAt = Ptr(HistoryDeleted)]],
     Days |-> [dt \in {<<2024, 7, 1>>} |-> Checked({"h1"})],
     ExportPath |-> "",
     ExportHistory |-> EmptyMap]

\* Files of the old format: the day 2024-01-01 with three booleans; with six,
\* beside a day with none; a day with none alone; and the empty object.
LegacyFiles ==
    { FileOf(LegacyBytes([dt \in {<<2024, 1, 1>>} |-> <<TRUE, FALSE, TRUE>>])),
      FileOf(LegacyBytes([dt \in LegacyDays |->
                            IF dt = <<2024, 1, 1>>
                            THEN <<FALSE, TRUE, TRUE, FALSE, TRUE, TRUE>> ELSE <<>>])),
      FileOf(LegacyBytes([dt \in {<<2024, 1, 1>>} |-> <<>>])),
      FileOf(LegacyBytes(EmptyMap)) }

\* What the data path can hold when the program starts: nothing, a file that
\* cannot be read, bytes that are no JSON, a file of the old format, or a file
\* an earlier run wrote.
StartFiles ==
    {NoFile, FileOf(Unreadable), FileOf(Garbage)}
      \cup LegacyFiles
      \cup {FileOf(Marshal(AllDeletedDoc)),
            FileOf(Marshal(HistoryDoc([dt \in HistoryDays \ {<<2024, 9, 10>>} |->
                                         IF dt = <<2024, 3, 10>>
                                         THEN <<Checked({"h1"})>> ELSE <<>>])))}

\* SaveDay(date, tasks) after such a start: the first day of the program, and
\* the day of the old format over again.
ArgStartDayCalls ==
    {<<StartDay, ArgTasks>>, <<<<2024, 1, 1>>, [id \in {"task-1"} |-> 0]>>}

StartInit == StartOn(StartFiles)

StartNext ==
    \/ Startup(NoFault)
    \/ AddTask("New", "count", NoFault)
    \/ \E id \in {"u1", "task-1"} : SetTaskType(id, "count", NoFault)
    \/ UpdateTask("h1", "Renamed", NoFault)
    \/ \E id \in {"u1", "task-1", "h1"} : DeleteTask(id, NoFault)
    \/ ReorderTasks(<<"u2", "task-2", "h2", "u1", "task-1", "h1">>, NoFault)
    \/ \E c \in ArgStartDayCalls : SaveDay(c[1], c[2], NoFault)
    \/ SetExportPath("/backup", NoFault)
    \/ MarkWeekExported(FirstDay, NoFault)
    \/ AdvanceDay
    \/ Crash

\* The program started on whatever the data path holds, used, stopped and
\* started again; all writes faultless.
StartSpec == StartInit /\ [][StartNext]_vars

\* The values a cell of a hand-made or older file can hold: the booleans, a
\* whole number, 5/2 and -5/2, a string, null, an array and an object.
LooseCells ==
    {JBool(TRUE), JBool(FALSE), JNumber(7), JFraction(5, 2), JFraction(-5, 2),
     JString("yes"), JNull, JArray, JObject}

\* The "type" member of a template of such a file: <<>> for none.
LooseTypes == {<<>>, <<"">>, <<"binary">>, <<"count">>}

\* The JSON of template t with the "type" member ty.
WithType(t, ty) ==
    LET o == MarshalTemplate([t EXCEPT !.Type = ""])
    IN  IF ty = <<>> THEN o ELSE MapSet(o, "type", ty[1])

\* A file of the current schema with such cells: the first template with the
\* type member ty, a record of July 1 with the cells c1 and c2 beside a whole
\* number, and a record of July 2 with the cell c2 alone.
LooseBytes(ty, c1, c2) ==
    [templates |-> << WithType(HistoryTemplates[1], ty),
                     MarshalTemplate(HistoryTemplates[2]) >>,
     days |-> [dt \in {<<2024, 7, 1>>, <<2024, 7, 2>>} |->
                 IF dt = <<2024, 7, 1>>
                 THEN [h1 |-> c1, h2 |-> c2, h3 |-> JNumber(3)]
                 ELSE [h1 |-> c2]]]

LooseFiles ==
    {FileOf(LooseBytes(ty, c1, c2)) : ty \in LooseTypes, c1 \in LooseCells, c2 \in LooseCells}

LoadInit == StartOn(LooseFiles)

LoadNext ==
    \/ Startup(NoFault)
    \/ SaveDay(<<2024, 7, 2>>, [h2 |-> 1], NoFault)
    \/ Crash

\* The program started on a file of the current schema that it did not write
\* itself, a record saved, stopped and started again.
LoadSpec == LoadInit /\ [][LoadNext]_vars

\* The days a file of the old format can name around the day of the
\* migration: the day before the program starts, that day, and the next.
MigrateDays == {FirstDay, StartDay, NextDay(StartDay)}

\* The lists such a file can hold for a day: <<>> for no entry; a true among
\* the first four booleans; a true at the fifth place only; no true.
MigrateLists ==
    {<<>>, <<<<TRUE, FALSE, TRUE>>>>, <<<<FALSE, FALSE, FALSE, FALSE, TRUE>>>>,
     <<<<FALSE, FALSE>>>>}

MigrateFiles ==
    {FileOf(LegacyBytes([dt \in {x \in MigrateDays : c[x] # <<>>} |-> c[dt][1]])) :
        c \in [MigrateDays -> MigrateLists]}

MigrateInit == StartOn(MigrateFiles)

MigrateNext ==
    \/ Startup(NoFault)
    \/ SaveDay(StartDay, [id \in {"task-1"} |-> 1], NoFault)
    \/ AdvanceDay
    \/ Crash

\* The program started on a file of the old format that names days before,
\* on and after the day of the migration.
MigrateSpec == MigrateInit /\ [][MigrateNext]_vars

\* The ids GetTaskTemplates returns, in its order.
ActiveIds(d) == [i \in DOMAIN GetTaskTemplatesOf(d) |-> GetTaskTemplatesOf(d)[i].ID]

\* handleMoveUp and handleMoveDown: the list with two neighbours swapped.
SwapAt(ids, i) ==
    [k \in DOMAIN ids |-> IF k = i THEN ids[i + 1] ELSE IF k = i + 1 THEN ids[i] ELSE ids[k]]

\* The lists the settings dialog can send to ReorderTasks, each a permutation
\* of the ids GetTaskTemplates returns: one move up or down, the list as it
\* is, and the list turned round.
MoveLists(d) ==
    LET ids == ActiveIds(d)
    IN  {SwapAt(ids, i) : i \in 1..(Len(ids) - 1)}
          \cup {ids, [k \in DOMAIN ids |-> ids[Len(ids) + 1 - k]]}

OrderInit == StartOn({NoFile, FileOf(LegacyBytes([dt \in {<<2024, 1, 1>>} |-> <<TRUE>>]))})

OrderNext ==
    \/ Startup(NoFault)
    \/ AddTask("New", "count", NoFault)
    \/ \E id \in {"u1", "task-1"} : UpdateTask(id, "Renamed", NoFault)
    \/ \E id \in {"u1", "task-1"} : SetTaskType(id, "count", NoFault)
    \/ \E id \in {"u1", "u3", "u4", "u5", "task-1", "task-4"} : DeleteTask(id, NoFault)
    \/ \E ids \in MoveLists(data) : ReorderTasks(ids, NoFault)

\* The settings dialog on the bootstrapped or the migrated templates: tasks
\* added, renamed, retyped, deleted and moved.
OrderSpec == OrderInit /\ [][OrderNext]_vars

\* ------------------------------------------------------- concurrent callers

\* The goroutines that call the core at the same time.
Callers == 1..MaxCallers

\* The operations that only read the document.
ReadOps == {"GetWeeklyReport", "LoadWeek"}

\* A handler that takes the lock for writing only: the reads take none.
LockTakenByWritersOnly(op) == IF op \in ReadOps THEN "none" ELSE "Lock"

\* The first statement of a handler: a.mu.RLock() in the reads, a.mu.Lock()
\* in the operations that change the document.
LockTaken(op) == IF op \in ReadOps THEN "RLock" ELSE "Lock"

\* The calls the concurrent callers make.
ArgConcurrentCalls ==
    {<<"SaveDay", <<StartDay, [u1 |-> 1]>>>>, <<"SaveDay", <<StartDay, [u2 |-> 2]>>>>,
     <<"AddTask", <<"New", "count">>>>,
     <<"GetWeeklyReport", <<DateKey[FirstDay]>>>>, <<"LoadWeek", <<DateKey[FirstDay]>>>>}

\* A goroutine enters a handler and reaches its first statement.
Begin(c, op, arg) ==
    /\ CanCall
    /\ c \notin DOMAIN procs
    /\ procs' = MapSet(procs, c, [pc |-> "wait", op |-> op, arg |-> arg, seen |-> <<>>,
                                  w |-> NoWrite(NoFile), ret |-> <<>>])
    /\ nops' = nops + 1
    /\ UNCHANGED <<data, dataFile, tmps, today, uuidCount, started, last, ncrashes, nfaults,
                   held, mu, ui>>

\* a.mu.Lock() returns when no goroutine holds the lock; a.mu.RLock() when
\* none holds it for writing.
Acquire(c) ==
    /\ c \in DOMAIN procs
    /\ procs[c].pc = "wait"
    /\ LET k == LockTaken(procs[c].op)
       IN  /\ k = "Lock" => mu.writer = 0 /\ mu.readers = {}
           /\ k = "RLock" => mu.writer = 0
           /\ mu' = IF k = "Lock" THEN [mu EXCEPT !.writer = c]
                    ELSE IF k = "RLock" THEN [mu EXCEPT !.readers = @ \cup {c}]
                    ELSE mu
    /\ procs' = [procs EXCEPT ![c].pc = "in"]
    /\ UNCHANGED <<data, dataFile, tmps, today, uuidCount, started, last, nops, ncrashes,
                   nfaults, held, ui>>

\* The handler changes the document in memory: a.data.Days[date] = tasks in
\* SaveDay, the append of the new template in AddTask.
Change(c) ==
    /\ c \in DOMAIN procs
    /\ procs[c].pc = "in"
    /\ procs[c].op \notin ReadOps
    /\ IF procs[c].op = "SaveDay"
       THEN /\ data' = SaveDayData(data, procs[c].arg[1], procs[c].arg[2])
            /\ procs' = [procs EXCEPT ![c].pc = "changed"]
            /\ UNCHANGED uuidCount
       ELSE /\ Len(data.Templates) < MaxTemplates
            /\ uuidCount < Len(Uuids)
            /\ LET task == NewTask(data, procs[c].arg[1], procs[c].arg[2],
                                   UuidOf(uuidCount + 1), today)
               IN  /\ data' = [data EXCEPT !.Templates = Append(@, task)]
                   /\ procs' = [procs EXCEPT ![c].pc = "changed", ![c].ret = <<task>>]
            /\ uuidCount' = uuidCount + 1
    /\ UNCHANGED <<dataFile, tmps, today, started, last, nops, ncrashes, nfaults, held, mu, ui>>

\* The handler calls saveDataLocked, which returns.
Write(c) ==
    /\ c \in DOMAIN procs
    /\ procs[c].pc = "changed"
    /\ LET w == saveDataLocked(data, dataFile, NoFault)
       IN  /\ dataFile' = w.target
           /\ procs' = [procs EXCEPT ![c].pc = "done", ![c].w = w]
    /\ UNCHANGED <<data, tmps, today, uuidCount, started, last, nops, ncrashes, nfaults,
                   held, mu, ui>>

\* The loop of a read over the seven days: its first three turns, then the
\* other four; seen holds the document each part read.
ReadFirst(c) ==
    /\ c \in DOMAIN procs
    /\ procs[c].pc = "in"
    /\ procs[c].op \in ReadOps
    /\ procs' = [procs EXCEPT ![c].pc = "reading", ![c].seen = <<data>>]
    /\ UNCHANGED <<data, dataFile, tmps, today, uuidCount, started, last, nops, ncrashes,
                   nfaults, held, mu, ui>>

ReadRest(c) ==
    /\ c \in DOMAIN procs
    /\ procs[c].pc = "reading"
    /\ procs' = [procs EXCEPT ![c].pc = "done", ![c].seen = Append(@, data)]
    /\ UNCHANGED <<data, dataFile, tmps, today, uuidCount, started, last, nops, ncrashes,
                   nfaults, held, mu, ui>>

\* What a read returns that took the first three days from document d1 and
\* the other four from d2.
ReadResult(op, arg, d1, d2) ==
    LET r1 == IF op = "LoadWeek" THEN LoadWeekOf(d1, arg[1])
              ELSE GetWeeklyReportOf(d1, arg[1]).dailyPercentages
        r2 == IF op = "LoadWeek" THEN LoadWeekOf(d2, arg[1])
              ELSE GetWeeklyReportOf(d2, arg[1]).dailyPercentages
        t == ParseDate(arg[1])[1]
    IN  IF op = "LoadWeek"
        THEN [dt \in DOMAIN r1 |-> IF dt \in {AddDays(t, i) : i \in 0..2} THEN r1[dt] ELSE r2[dt]]
        ELSE [i \in 1..7 |-> IF i <= 3 THEN r1[i] ELSE r2[i]]

\* The handler returns and its deferred Unlock or RUnlock runs.
Release(c) ==
    /\ c \in DOMAIN procs
    /\ procs[c].pc = "done"
    /\ mu' = [writer |-> IF mu.writer = c THEN 0 ELSE mu.writer, readers |-> mu.readers \ {c}]
    /\ procs' = [x \in (DOMAIN procs) \ {c} |-> procs[x]]
    /\ last' = IF procs[c].op \in ReadOps
               THEN Call(procs[c].op, procs[c].arg, NoWrite(dataFile), FALSE, <<>>, "",
                         <<ReadResult(procs[c].op, procs[c].arg, procs[c].seen[1],
                                      procs[c].seen[2])>>)
               ELSE Call(procs[c].op, procs[c].arg, procs[c].w, TRUE, <<>>,
                         IF procs[c].op = "AddTask" THEN AddTaskErr(procs[c].w.err)
                         ELSE procs[c].w.err,
                         procs[c].ret)
    /\ UNCHANGED <<data, dataFile, tmps, today, uuidCount, started, nops, ncrashes, nfaults,
                   held, ui>>

LockNext ==
    \/ Startup(NoFault)
    \/ \E c \in Callers, call \in ArgConcurrentCalls : Begin(c, call[1], call[2])
    \/ \E c \in Callers : Acquire(c)
    \/ \E c \in Callers : Change(c)
    \/ \E c \in Callers : Write(c)
    \/ \E c \in Callers : ReadFirst(c)
    \/ \E c \in Callers : ReadRest(c)
    \/ \E c \in Callers : Release(c)

\* Callers that run at the same time, each handler step by step: the lock,
\* the change in memory, the write, the unlock.
LockSpec == Init /\ [][LockNext]_vars

\* ------------------------------------------------------------ weekly planner

\* The templates loadData of the planner keeps of those GetTaskTemplates
\* returned: each with the type count or binary.
PlannerTemplates(templatesData) ==
    [i \in DOMAIN templatesData |->
       [templatesData[i] EXCEPT !.Type = IF @ = "count" THEN "count" ELSE "binary"]]

\* getTasksForDate of the planner store: the templates not created after the
\* date and not deleted on or before it, sorted by order.
getTasksForDate(templates, date) ==
    SortByOrder(SelectSeq(templates,
                          LAMBDA task : /\ ~DateGT(task.CreatedAt, date)
                                        /\ ~(task.DeletedAt # Nil
                                               /\ DateLE(task.DeletedAt[1], date))))

\* The tasks the planner shows in the column of a date when it has loaded
\* document d.
ShownTasks(d, date) == getTasksForDate(PlannerTemplates(GetTaskTemplatesOf(d)), date)

\* ------------------------------------------------------------ export of weeks

\* The week before the one the planner shows when the program starts: the
\* week checkAndExportPreviousWeek is about, and the first of the loop of
\* handleExportHistory.
PrevWeek == <<2024, 12, 23>>

\* The weeks of the loop of handleExportHistory the model follows: the first
\* and the 35th of its 52.
HistoryWeeks == <<PrevWeek, <<2024, 4, 29>>>>

\* The document of an earlier run with a record in each of these weeks or in
\* none (recs), and the weeks of marked as exported.
ExportDoc(recs, marked) ==
    [Templates |-> HistoryTemplates,
     Days |-> [dt \in recs |-> Checked({"h1"})],
     ExportPath |-> "/exports",
     ExportHistory |-> [wk \in marked |-> <<2024, 12, 29>>]]

ExportFiles ==
    {FileOf(Marshal(ExportDoc(recs, marked))) :
        recs \in SUBSET {<<2024, 12, 24>>, <<2024, 4, 30>>}, marked \in SUBSET {PrevWeek}}

\* The frontend when its window opens: both export flows at rest, no export
\* file written.
ExportUi ==
    [planner |-> [pc |-> "idle", runs |-> 0],
     settings |-> [pc |-> "idle", runs |-> 0, i |-> 0],
     written |-> [wk \in {HistoryWeeks[i] : i \in DOMAIN HistoryWeeks} |-> 0]]

OpenWindow ==
    /\ started
    /\ ui = NoUi
    /\ ui' = ExportUi
    /\ UNCHANGED <<data, dataFile, tmps, today, uuidCount, started, last, nops, ncrashes,
                   nfaults, held, mu, procs>>

\* A step of an export flow that calls a read of the core, or SaveHTMLExport,
\* and goes on to nui.
FlowStep(nui) ==
    /\ ui # NoUi
    /\ ui' = nui
    /\ UNCHANGED <<data, dataFile, tmps, today, uuidCount, started, last, nops, ncrashes,
                   nfaults, held, mu, procs>>

\* SaveHTMLExport(filename, html) with the file name of week wk: the file is
\* written once more.
SaveHTMLExport(u, wk) == [u EXCEPT !.written[wk] = @ + 1]

\* if (report.weeklyAverage > 0 || report.dailyPercentages.some(p => p > 0))
HasData(report) ==
    \/ RatLess(Zero, report.weeklyAverage)
    \/ \E i \in DOMAIN report.dailyPercentages : RatLess(Zero, report.dailyPercentages[i])

\* checkAndExportPreviousWeek, from await to await: the timer fires and
\* IsWeekExported answers; GetWeeklyReport; SaveHTMLExport; MarkWeekExported.
PlannerCheck ==
    /\ ui # NoUi
    /\ ui.planner.pc = "idle"
    /\ ui.planner.runs < MaxRuns
    /\ FlowStep(IF IsWeekExportedOf(data, PrevWeek)
                THEN [ui EXCEPT !.planner.runs = @ + 1]
                ELSE [ui EXCEPT !.planner.pc = "report", !.planner.runs = @ + 1])

PlannerReport ==
    /\ ui # NoUi
    /\ ui.planner.pc = "report"
    /\ FlowStep([ui EXCEPT !.planner.pc = "save"])

PlannerSave ==
    /\ ui # NoUi
    /\ ui.planner.pc = "save"
    /\ FlowStep(SaveHTMLExport([ui EXCEPT !.planner.pc = "mark"], PrevWeek))

PlannerMark ==
    /\ ui # NoUi
    /\ ui.planner.pc = "mark"
    /\ SavingCall("MarkWeekExported", <<PrevWeek>>,
                  MarkWeekExportedData(data, PrevWeek, today), NoFault)
    /\ ui' = [ui EXCEPT !.planner.pc = "idle"]
    /\ UNCHANGED <<mu, procs>>

\* The loop of handleExportHistory goes to its next week, or ends.
NextWeek(u) ==
    IF u.settings.i < Len(HistoryWeeks)
    THEN [u EXCEPT !.settings.pc = "check", !.settings.i = @ + 1]
    ELSE [u EXCEPT !.settings.pc = "idle", !.settings.i = 0]

\* handleExportHistory, from await to await.
SettingsClick ==
    /\ ui # NoUi
    /\ ui.settings.pc = "idle"
    /\ ui.settings.runs < MaxRuns
    /\ FlowStep([ui EXCEPT !.settings.pc = "check", !.settings.i = 1,
                           !.settings.runs = @ + 1])

SettingsCheck ==
    /\ ui # NoUi
    /\ ui.settings.pc = "check"
    /\ FlowStep(IF IsWeekExportedOf(data, HistoryWeeks[ui.settings.i])
                THEN NextWeek(ui)
                ELSE [ui EXCEPT !.settings.pc = "report"])

SettingsReport ==
    /\ ui # NoUi
    /\ ui.settings.pc = "report"
    /\ FlowStep(IF HasData(GetWeeklyReportOf(data, DateKey[HistoryWeeks[ui.settings.i]]))
                THEN [ui EXCEPT !.settings.pc = "save"]
                ELSE NextWeek(ui))

SettingsSave ==
    /\ ui # NoUi
    /\ ui.settings.pc = "save"
    /\ FlowStep(SaveHTMLExport([ui EXCEPT !.settings.pc = "mark"],
                               HistoryWeeks[ui.settings.i]))

SettingsMark ==
    /\ ui # NoUi
    /\ ui.settings.pc = "mark"
    /\ SavingCall("MarkWeekExported", <<HistoryWeeks[ui.settings.i]>>,
                  MarkWeekExportedData(data, HistoryWeeks[ui.settings.i], today), NoFault)
    /\ ui' = NextWeek(ui)
    /\ UNCHANGED <<mu, procs>>

ExportInit == StartOn(ExportFiles)

ExportNext ==
    \/ Startup(NoFault)
    \/ OpenWindow
    \/ PlannerCheck
    \/ PlannerReport
    \/ PlannerSave
    \/ PlannerMark
    \/ SettingsClick
    \/ SettingsCheck
    \/ SettingsReport
    \/ SettingsSave
    \/ SettingsMark

\* The auto-export of the planner and the export of the settings dialog,
\* each run up to MaxRuns times, their awaited calls in any order.
ExportSpec == ExportInit /\ [][ExportNext]_vars

\* ------------------------------------------------------ changes in the planner

\* The day of the week shown whose tasks the user changes.
PlannerDay == StartDay

\* The planner when it is first shown: no template and no record loaded, its
\* effect has called loadData, whose LoadWeek is in flight.  calls are the
\* calls in flight, answers the results on their way back in the order the
\* calls completed; shown says that the templates are loaded, so that the
\* days show their tasks; wanted is the last value the user set for each task.
PlannerUi ==
    [weekData |-> EmptyMap, wanted |-> EmptyMap, refreshKey |-> 0, changes |-> 0,
     shown |-> FALSE,
     calls |-> <<[kind |-> "LoadWeek", key |-> 0]>>, answers |-> <<>>]

OpenPlanner ==
    /\ started
    /\ ui = NoUi
    /\ ui' = PlannerUi
    /\ UNCHANGED <<data, dataFile, tmps, today, uuidCount, started, last, nops, ncrashes,
                   nfaults, held, mu, procs>>

\* handleTaskChange(dateKey, taskId, newValue) for the day: the updater
\* copies the record of the state, sets the value and calls SaveDay with the
\* whole record.
handleTaskChange(taskId, newValue) ==
    /\ ui # NoUi
    /\ ui.shown
    /\ ui.changes < MaxChanges
    /\ LET v == IF newValue < 0 THEN 0 ELSE newValue
           dayTasks == MapSet(ui.weekData, taskId, v)
       IN  ui' = [ui EXCEPT !.weekData = dayTasks,
                            !.wanted = MapSet(@, taskId, v),
                            !.changes = @ + 1,
                            !.calls = Append(@, [kind |-> "SaveDay", tasks |-> dayTasks])]
    /\ UNCHANGED <<data, dataFile, tmps, today, uuidCount, started, last, nops, ncrashes,
                   nfaults, held, mu, procs>>

\* The calls in flight without the i-th.
WithoutCall(calls, i) == [j \in 1..(Len(calls) - 1) |-> IF j < i THEN calls[j] ELSE calls[j + 1]]

\* The core runs one of the calls in flight, whichever takes the lock first:
\* a SaveDay, or the LoadWeek of loadData.
SaveDayRuns(i) ==
    /\ ui # NoUi
    /\ i \in DOMAIN ui.calls
    /\ ui.calls[i].kind = "SaveDay"
    /\ SavingCall("SaveDay", <<PlannerDay, ui.calls[i].tasks>>,
                  SaveDayData(data, PlannerDay, ui.calls[i].tasks), NoFault)
    /\ ui' = [ui EXCEPT !.calls = WithoutCall(@, i),
                        !.answers = Append(@, [kind |-> "SaveDay"])]
    /\ UNCHANGED <<mu, procs>>

LoadWeekRuns(i) ==
    /\ ui # NoUi
    /\ i \in DOMAIN ui.calls
    /\ ui.calls[i].kind = "LoadWeek"
    /\ ui' = [ui EXCEPT !.calls = WithoutCall(@, i),
                        !.answers = Append(@, [kind |-> "LoadWeek", key |-> ui.calls[i].key,
                                               tasks |-> LoadWeekOf(data, DateKey[FirstDay])
                                                             [PlannerDay]])]
    /\ UNCHANGED <<data, dataFile, tmps, today, uuidCount, started, last, nops, ncrashes,
                   nfaults, held, mu, procs>>

\* The promise of SaveDay resolves: onDataChange raises refreshKey, the
\* effect of the planner runs again, cancels the loadData before it and
\* calls LoadWeek anew.
SaveDayReturns ==
    /\ ui # NoUi
    /\ ui.answers # <<>>
    /\ Head(ui.answers).kind = "SaveDay"
    /\ ui' = [ui EXCEPT !.answers = Tail(@),
                        !.refreshKey = @ + 1,
                        !.calls = Append(@, [kind |-> "LoadWeek", key |-> ui.refreshKey + 1])]
    /\ UNCHANGED <<data, dataFile, tmps, today, uuidCount, started, last, nops, ncrashes,
                   nfaults, held, mu, procs>>

\* The promise of LoadWeek resolves: a loadData that was not cancelled sets
\* the record of the day in the state.
LoadWeekReturns ==
    /\ ui # NoUi
    /\ ui.answers # <<>>
    /\ Head(ui.answers).kind = "LoadWeek"
    /\ ui' = [ui EXCEPT !.answers = Tail(@),
                        !.shown = @ \/ Head(ui.answers).key = ui.refreshKey,
                        !.weekData = IF Head(ui.answers).key = ui.refreshKey
                                     THEN Head(ui.answers).tasks ELSE @]
    /\ UNCHANGED <<data, dataFile, tmps, today, uuidCount, started, last, nops, ncrashes,
                   nfaults, held, mu, procs>>

\* The values the user sets: three tasks done, the first undone again.
ArgChanges == {<<"u1", 1>>, <<"u2", 1>>, <<"u3", 1>>, <<"u1", 0>>}

PlannerNext ==
    \/ Startup(NoFault)
    \/ OpenPlanner
    \/ \E c \in ArgChanges : handleTaskChange(c[1], c[2])
    \/ \E i \in 1..(2 * MaxChanges + 1) : SaveDayRuns(i)
    \/ \E i \in 1..(2 * MaxChanges + 1) : LoadWeekRuns(i)
    \/ SaveDayReturns
    \/ LoadWeekReturns

\* The planner with the user changing values of one day while the calls of
\* earlier changes and the refreshes they cause are in flight.
PlannerSpec == Init /\ [][PlannerNext]_vars

\* ------------------------------------------------------------------ claims

Range(s) == {s[i] : i \in DOMAIN s}

\* This step is a call of op that returned.
Returned(op) == nops' = nops + 1 /\ last'.op = op /\ ~last'.crashed

\* This step is a call of one of the registry's mutating operations.
RegistryCall ==
    \E op \in {"AddTask", "UpdateTask", "SetTaskType", "DeleteTask", "ReorderTasks"} :
        Returned(op)

\* The operations that change the document.
MutatingOps ==
    {"AddTask", "UpdateTask", "SetTaskType", "DeleteTask", "ReorderTasks",
     "SaveDay", "SetExportPath", "MarkWeekExported"}

\* Days from 0000-03-01 (the civil-calendar count): the chronological order of
\* dates, which no string enters.
DayNum(dt) ==
    LET y == IF dt[2] <= 2 THEN dt[1] - 1 ELSE dt[1]
        mp == (dt[2] + 9) % 12
    IN  365 * y + (y \div 4) - (y \div 100) + (y \div 400)
          + ((153 * mp + 2) \div 5) + dt[3] - 1

\* The day numbers of the model's dates, made once.
DayNumOf == [dt \in Dates |-> DayNum(dt)]

\* createdAt <= d and (deletedAt is absent or deletedAt > d), by the calendar.
InWindow(t, d) ==
    /\ DayNumOf[t.CreatedAt] <= DayNumOf[d]
    /\ (t.DeletedAt = Nil \/ DayNumOf[t.DeletedAt[1]] > DayNumOf[d])

\* The ids of the templates GetTasksForDate(d) returns for document doc.
ValidIds(doc, d) == {t.ID : t \in Range(GetTasksForDateOf(doc, d))}

C2_CrashLeavesOldOrNew ==
    [][(last'.crashed /\ last'.saved) =>
          (dataFile' = dataFile \/ dataFile' = FileOf(last'.bytes[1]))]_vars

\* C3: a mutating operation that returns success has left the post-mutation
\* document in the data file.
C3_SuccessIsDurable ==
    (last.op \in MutatingOps /\ last.saved /\ ~last.crashed /\ last.err = "")
        => dataFile = FileOf(Marshal(data))

\* C4: DeleteTask on a template that already has a deletedAt leaves the
\* document unchanged.
C4_DeleteOnlyOnce ==
    [][\A id \in {"u1", "u5"} :
          LET i == IndexOfID(data.Templates, id)
          IN  (Returned("DeleteTask") /\ last'.arg = <<id>> /\ i # 0
                 /\ data.Templates[i].DeletedAt # Nil)
                => data' = data]_vars

\* C5: while the process runs, every template stays, with its id and its
\* createdAt; the list grows only by one, and only in AddTask.
C5_TemplatesOnlyGrow ==
    [][(started /\ started') =>
          /\ \A t \in Range(data.Templates) :
                \E u \in Range(data'.Templates) : u.ID = t.ID /\ u.CreatedAt = t.CreatedAt
          /\ Len(data'.Templates) >= Len(data.Templates)
          /\ Len(data'.Templates) # Len(data.Templates) =>
                (Returned("AddTask") /\ Len(data'.Templates) = Len(data.Templates) + 1)]_vars

\* C5's case: a template was added after one of the defaults was deleted.
C5_Witness ==
    /\ started
    /\ Len(data.Templates) = 5
    /\ last.op = "AddTask"
    /\ \E t \in Range(data.Templates) : t.DeletedAt # Nil

\* C6: a registry mutation made while today = D leaves the set of templates
\* valid on every date before D unchanged.
C6_PastUnchanged ==
    [][RegistryCall =>
          \A d \in Dates :
             DayNumOf[d] < DayNumOf[today] => ValidIds(data', d) = ValidIds(data, d)]_vars

\* C7: DeleteTask on an existing template changes that template's deletedAt
\* and nothing else of the document.
C7_DeleteFrame ==
    [][\A id \in ArgIds :
          LET i == IndexOfID(data.Templates, id)
          IN  (Returned("DeleteTask") /\ last'.arg = <<id>> /\ i # 0) =>
                /\ data'.Templates[i].DeletedAt = Ptr(today)
                /\ data' = [data EXCEPT !.Templates[i].DeletedAt = Ptr(today)]
                /\ \A j \in DOMAIN data.Templates : j # i => data'.Templates[j] = data.Templates[j]
                /\ data'.Days = data.Days
                /\ data'.ExportPath = data.ExportPath
                /\ data'.ExportHistory = data.ExportHistory]_vars

\* C7's case: DeleteTask has deleted a template under whose id a day holds a
\* value, with a week marked exported.
C7_Witness ==
    /\ last.op = "DeleteTask"
    /\ last.arg = <<"u1">>
    /\ \E t \in Range(data.Templates) : t.ID = "u1" /\ t.DeletedAt # Nil
    /\ \E dt \in DOMAIN data.Days : "u1" \in DOMAIN data.Days[dt]
    /\ DOMAIN data.ExportHistory # {}

\* (the greatest order of the templates) + 1, 0 for none.
NextOrder(tpls) ==
    IF tpls = <<>> THEN 0
    ELSE (CHOOSE m \in {t.Order : t \in Range(tpls)} : \A t \in Range(tpls) : t.Order <= m) + 1

\* C8: AddTask appends one template, of order (greatest existing order) + 1
\* (0 in a registry with no template), created today and not deleted, returns
\* it, and GetTaskTemplates then holds it.
C8_AddTaskOrder ==
    /\ NewTask(NewAppData, "New", "count", UuidOf(1), StartDay).Order = 0
    /\ [][Returned("AddTask") =>
             LET t == data'.Templates[Len(data'.Templates)]
             IN  /\ data'.Templates = Append(data.Templates, t)
                 /\ t.Order = NextOrder(data.Templates)
                 /\ t.CreatedAt = today
                 /\ t.DeletedAt = Nil
                 /\ t.ID \notin {u.ID : u \in Range(data.Templates)}
                 /\ last'.ret = <<t>>
                 /\ t \in Range(GetTaskTemplatesOf(data'))]_vars

\* C8's case: AddTask returned a template whose order is beyond the count of
\* the templates before it, and GetTaskTemplates holds it.
C8_Witness ==
    /\ last.op = "AddTask"
    /\ last.ret # <<>>
    /\ last.ret[1].Order >= Len(data.Templates)
    /\ last.ret[1] \in Range(GetTaskTemplatesOf(data))

\* C9: LoadDay(d) returns the mapping of the last SaveDay(d, m), whatever it
\* holds and whatever calls came since.
C9_SaveLoadRoundTrip ==
    [][(started /\ started') =>
          \A d \in Dates :
             IF Returned("SaveDay") /\ last'.arg[1] = d
             THEN LoadDayOf(data', d) = last'.arg[2]
             ELSE LoadDayOf(data', d) = LoadDayOf(data, d)]_vars

\* C9's case: a record with a zero, a negative value and the ids of an unknown
\* and of a deleted task is read back after DeleteTask deleted that task.
C9_Witness ==
    /\ last.op = "DeleteTask"
    /\ last.arg = <<"u1">>
    /\ last.saved
    /\ LoadDayOf(data, FirstDay) = ArgTasks
    /\ \E id \in DOMAIN ArgTasks : ArgTasks[id] < 0
    /\ \E id \in DOMAIN ArgTasks : id \notin {t.ID : t \in Range(data.Templates)}

\* C10: SaveDay(d, m) leaves m as the record of d and changes no other record
\* and nothing else of the document.
C10_SaveDayFrame ==
    [][Returned("SaveDay") =>
          LET d == last'.arg[1]
              m == last'.arg[2]
          IN  /\ d \in DOMAIN data'.Days
              /\ DOMAIN data'.Days[d] = DOMAIN m
              /\ data'.Days[d] = m
              /\ DOMAIN data'.Days = (DOMAIN data.Days) \cup {d}
              /\ \A e \in DOMAIN data.Days : e # d => data'.Days[e] = data.Days[e]
              /\ data'.Templates = data.Templates
              /\ data'.ExportPath = data.ExportPath
              /\ data'.ExportHistory = data.ExportHistory]_vars

\* C10's case: SaveDay has replaced a record by one without some of its keys
\* (the file, whose write failed, still holds the old record), while another
\* date has a record.
C10_Witness ==
    /\ last.op = "SaveDay"
    /\ last.err # ""
    /\ dataFile # NoFile
    /\ LET d == last.arg[1]
           old == loadData(NewAppData, dataFile).Days
       IN  /\ d \in DOMAIN old
           /\ (DOMAIN old[d]) \ (DOMAIN last.arg[2]) # {}
           /\ DOMAIN data.Days[d] = DOMAIN last.arg[2]
           /\ \E e \in DOMAIN data.Days : e # d /\ DOMAIN data.Days[e] # {}

\* This step is the caller storing a value in the map LoadDay gave it.
CallerWrote == held # <<>> /\ held' # <<>> /\ ~held[1].written /\ held'[1].written

\* C11: LoadDay(d) returns the entries of the stored record of d, or no entry
\* when d has no record, and creates no record; a value the caller then
\* stores in the returned map leaves the document, and with it what a later
\* LoadDay returns, unchanged.
C11_LoadDayCopies ==
    [][/\ Returned("LoadDay") =>
             LET d == last'.arg[1]
             IN  /\ data' = data
                 /\ d \in DOMAIN data.Days => last'.ret = <<data.Days[d]>>
                 /\ d \notin DOMAIN data.Days =>
                        last'.ret = <<EmptyMap>> /\ d \notin DOMAIN data'.Days
       /\ CallerWrote =>
             /\ data' = data
             /\ \A d \in Dates : LoadDayOf(data', d) = LoadDayOf(data, d)]_vars

\* C11's case: LoadDay returned the record of a date that has one, and the
\* caller has since stored a value in the returned map, which now differs
\* from the stored record.
C11_Witness ==
    /\ last.op = "LoadDay"
    /\ held # <<>>
    /\ held[1].written
    /\ held[1].date \in DOMAIN data.Days
    /\ data.Days[held[1].date] = ArgTasks
    /\ last.ret = <<ArgTasks>>
    /\ held[1].val # ArgTasks

\* The ids of the templates of a document.
TemplateIds(doc) == {t.ID : t \in Range(doc.Templates)}

\* C12: UpdateTask, DeleteTask and SetTaskType with an id of no template
\* return nil and leave the document and the data file as they were.
C12_UnknownIdNoOp ==
    [][\A op \in {"UpdateTask", "DeleteTask", "SetTaskType"} :
          (Returned(op) /\ last'.arg[1] \notin TemplateIds(data)) =>
              /\ last'.err = ""
              /\ data' = data
              /\ dataFile' = dataFile]_vars

\* C12's case: a call with an unknown id returned while the data file holds a
\* document with a deleted template, a day record or an export mark.
C12_Witness ==
    /\ last.op \in {"UpdateTask", "DeleteTask", "SetTaskType"}
    /\ last.arg[1] = "ghost"
    /\ ~last.crashed
    /\ dataFile # NoFile
    /\ \/ \E t \in Range(data.Templates) : t.DeletedAt # Nil
       \/ DOMAIN data.Days # {}
       \/ DOMAIN data.ExportHistory # {}

\* The template with this id in a document.
TemplateOf(doc, id) == doc.Templates[IndexOfID(doc.Templates, id)]

\* C13: SetTaskType with a type that is neither "binary" nor "count" nor the
\* empty string returns nil and leaves the document as it was; with the empty
\* string it stores "binary" as the type of the template and changes nothing
\* else.
C13_InvalidKindIgnored ==
    [][Returned("SetTaskType") =>
          LET id == last'.arg[1]
              kind == last'.arg[2]
          IN  /\ kind \notin {"binary", "count", ""} =>
                     last'.err = "" /\ data' = data /\ dataFile' = dataFile
              /\ (kind = "" /\ id \in TemplateIds(data)) =>
                     data' = [data EXCEPT
                                !.Templates[IndexOfID(data.Templates, id)].Type = "binary"]]_vars

\* C13's case: after SetTaskType made a template "count", an unknown word was
\* given for it and ignored: no save, the template still "count".
C13_Witness ==
    /\ last.op = "SetTaskType"
    /\ last.arg = <<"u1", "bogus">>
    /\ ~last.saved
    /\ last.err = ""
    /\ TemplateOf(data, "u1").Type = "count"
    /\ loadData(NewAppData, dataFile) = data

\* C13 as stated: every type outside {"binary", "count"}, the empty string
\* too, leaves the document as it was.
C13_AsStated ==
    [][(Returned("SetTaskType") /\ last'.arg[2] \notin {"binary", "count"}) =>
          last'.err = "" /\ data' = data]_vars

\* C14: AddTask returns nil whatever type it is given, and the template it
\* makes has the type given when that is "binary" or "count", "binary"
\* otherwise.
C14_AddTaskKind ==
    [][Returned("AddTask") =>
          LET kind == IF last'.arg[2] \in {"binary", "count"} THEN last'.arg[2] ELSE "binary"
          IN  /\ last'.err = ""
              /\ last'.ret[1].Type = kind
              /\ Len(data'.Templates) = Len(data.Templates) + 1
              /\ data'.Templates[Len(data'.Templates)].Type = kind]_vars

\* C14's case: AddTask was given an unknown word and the new template is
\* "binary".
C14_Witness ==
    /\ last.op = "AddTask"
    /\ last.arg[2] = "bogus"
    /\ last.err = ""
    /\ data.Templates[Len(data.Templates)].Type = "binary"
    /\ GetTaskTemplatesOf(data)[Len(data.Templates)].Type = "binary"

\* No id occurs twice in the list.
DuplicateFree(ids) == \A i, j \in DOMAIN ids : ids[i] = ids[j] => i = j

\* C15: ReorderTasks(ids) with a duplicate-free list gives every template whose
\* id is in the list its 0-based position there as order, and leaves every
\* other template, and every other field, as it was.
C15_ReorderPositions ==
    [][(Returned("ReorderTasks") /\ DuplicateFree(last'.arg[1])) =>
          LET ids == last'.arg[1]
          IN  /\ DOMAIN data'.Templates = DOMAIN data.Templates
              /\ \A i \in DOMAIN data.Templates :
                    LET t == data.Templates[i]
                    IN  IF \E k \in DOMAIN ids : ids[k] = t.ID
                        THEN data'.Templates[i] =
                               [t EXCEPT !.Order = (CHOOSE k \in DOMAIN ids : ids[k] = t.ID) - 1]
                        ELSE data'.Templates[i] = t]_vars

\* C15's case: a list with an unknown id has moved the first default task to
\* position 4 and the added task to position 0, the fourth default task, not
\* in the list, keeping order 3.
C15_Witness ==
    /\ last.op = "ReorderTasks"
    /\ last.arg = << <<"u5", "ghost", "u2", "u3", "u1">> >>
    /\ "u5" \in TemplateIds(data)
    /\ TemplateOf(data, "u5").Order = 0
    /\ TemplateOf(data, "u1").Order = 4
    /\ TemplateOf(data, "u2").Order = 2
    /\ TemplateOf(data, "u4").Order = 3

\* The Order fields along the list never decrease.
NonDecreasing(s) == \A i, j \in DOMAIN s : i < j => s[i].Order <= s[j].Order

\* C16: GetTaskTemplates returns the templates without DeletedAt, each once
\* and no other, in non-decreasing Order; GetTasksForDate returns its
\* templates in non-decreasing Order too.
C16_ListsSorted ==
    LET got == GetTaskTemplatesOf(data)
        live == {i \in DOMAIN data.Templates : data.Templates[i].DeletedAt = Nil}
    IN  /\ Len(got) = Cardinality(live)
        /\ Range(got) = {DefaultType(data.Templates[i]) : i \in live}
        /\ NonDecreasing(got)
        /\ \A d \in Dates : NonDecreasing(GetTasksForDateOf(data, d))

\* C16's case: the stored list is out of order after a ReorderTasks, two
\* templates share an order, and one template is deleted.
C16_Witness ==
    /\ started
    /\ ~NonDecreasing(data.Templates)
    /\ \E t \in Range(data.Templates) : t.DeletedAt # Nil
    /\ \E i, j \in DOMAIN data.Templates :
          /\ i # j
          /\ data.Templates[i].Order = data.Templates[j].Order
          /\ data.Templates[i].DeletedAt = Nil
          /\ data.Templates[j].DeletedAt = Nil
    /\ Len(GetTaskTemplatesOf(data)) >= 3

\* The day of the calendar with day number n, among the days of the reports.
DayAt ==
    [n \in {DayNum(dt) : dt \in ReportDates} |-> CHOOSE dt \in ReportDates : DayNum(dt) = n]

\* The seven days of each week of the reports, by their day numbers.
WeekDays == [ws \in ArgWeekStarts |-> [i \in 1..7 |-> DayAt[DayNum(ws) + i - 1]]]

\* The string of every day of the reports parses back to that day, and no two
\* days share a string.
KeysAreDates ==
    /\ \A dt \in ReportDates : ParseDate(DateKey[dt]) = <<dt>>
    /\ \A a, b \in ReportDates : DateKey[a] = DateKey[b] => a = b

\* C17: LoadWeek(weekStart) has exactly seven keys, the days weekStart,
\* weekStart + 1, ..., weekStart + 6 of the calendar, each with the entries
\* of the stored record of that day, or none when it has no record.
C17_LoadWeekSevenDays ==
    /\ KeysAreDates
    /\ \A ws \in ArgWeekStarts :
          LET wk == LoadWeekOf(data, DateKey[ws])
          IN  /\ Cardinality(DOMAIN wk) = 7
              /\ DOMAIN wk = Range(WeekDays[ws])
              /\ \A dt \in DOMAIN wk :
                    /\ dt \in DOMAIN data.Days => wk[dt] = data.Days[dt]
                    /\ dt \notin DOMAIN data.Days => wk[dt] = EmptyMap

\* C17's case: the week over the year end of the model, with a record that
\* holds entries on one of its days, a record without entry on another and
\* days without record.
C17_Witness ==
    LET wk == LoadWeekOf(data, DateKey[FirstDay])
    IN  /\ started
        /\ FirstDay \in DOMAIN data.Days
        /\ StartDay \in DOMAIN data.Days
        /\ wk[StartDay] = ArgTasks
        /\ wk[FirstDay] = EmptyMap
        /\ <<2025, 1, 5>> \in DOMAIN wk
        /\ <<2025, 1, 5>> \notin DOMAIN data.Days

\* The percentage of section 4.4 for day dt: 100 * (templates valid on dt whose
\* recorded value is above 0) / (templates valid on dt).
PercentOf(doc, dt) ==
    LET T == {t \in Range(doc.Templates) : InWindow(t, dt)}
        rec == doc.Days[dt]
        done == {t \in T : t.ID \in DOMAIN rec /\ rec[t.ID] > 0}
    IN  Rat(100 * Cardinality(done), Cardinality(T))

\* The months of the reports that hold a day a template or a record can have.
DataMonths == {ym \in ArgMonths : \E dt \in Dates : dt[1] = ym[1] /\ dt[2] = ym[2]}

\* The weekly reports of the model's weeks, the monthly reports of the months
\* that can hold data, and the percentages the yearly report lists for them.
ReportsOf(doc) ==
    [weekly |-> [ws \in ArgWeekStarts |-> GetWeeklyReportOf(doc, DateKey[ws])],
     monthly |-> [ym \in DataMonths |-> GetMonthlyReportOf(doc, ym[1], ym[2])],
     yearly |-> [ym \in DataMonths |->
                   DailyPercentages(doc, <<ym[1], ym[2], 1>>, LastDayOf(<<ym[1], ym[2], 1>>))]]

\* C18: for a day with a record and at least one valid template, the
\* percentage the reports compute is 100 * (valid templates with a recorded
\* value above 0) / (valid templates), and it is the value of the day in the
\* weekly report and in the list of the yearly report; a SetTaskType call
\* changes no report.
C18_DayPercentage ==
    /\ [](\A dt \in DOMAIN data.Days :
            (\E t \in Range(data.Templates) : InWindow(t, dt)) =>
                /\ DayPercentage(data, dt) = <<PercentOf(data, dt)>>
                /\ \A ws \in ArgWeekStarts : \A i \in 1..7 :
                      WeekDays[ws][i] = dt =>
                         GetWeeklyReportOf(data, DateKey[ws]).dailyPercentages[i]
                           = PercentOf(data, dt)
                /\ PercentOf(data, dt) \in
                      Range(DailyPercentages(data, <<dt[1], dt[2], 1>>,
                                             LastDayOf(<<dt[1], dt[2], 1>>))))
    /\ [][Returned("SetTaskType") => ReportsOf(data') = ReportsOf(data)]_vars

\* C18's case: on the first day of the program four default tasks and one
\* added "count" task are valid, and the record holds 2 for a "binary" task,
\* a negative value, a zero, no entry for the fourth, 1 for the added task and
\* 1 for an unknown task: 2 of 5 are done, 40 percent.
C18_Witness ==
    /\ started
    /\ StartDay \in DOMAIN data.Days
    /\ data.Days[StartDay] = ArgMixed
    /\ Len(getTasksForDateLocked(data, StartDay)) = 5
    /\ TemplateOf(data, "u5").Type = "count"
    /\ TemplateOf(data, "u1").Type = "binary"
    /\ DayPercentage(data, StartDay) = <<Rat(40, 1)>>

\* What day dt counts for in a weekly or monthly report by section 4.4: its
\* percentage, 0 when it has no record or no valid template.
ValueOf(doc, dt) ==
    IF dt \in DOMAIN doc.Days /\ \E t \in Range(doc.Templates) : InWindow(t, dt)
    THEN PercentOf(doc, dt)
    ELSE Zero

\* C19: GetWeeklyReport(weekStart) has seven daily values, the i-th the
\* percentage of day weekStart + i, 0 for a day without valid template or
\* without record, and weeklyAverage is their sum divided by 7; a week
\* without valid template has seven values 0 and average 0.
C19_WeeklyReport ==
    \A ws \in ArgWeekStarts :
        LET r == GetWeeklyReportOf(data, DateKey[ws])
            days == WeekDays[ws]
        IN  /\ Len(r.dailyPercentages) = 7
            /\ \A i \in 1..7 : r.dailyPercentages[i] = ValueOf(data, days[i])
            /\ r.weeklyAverage = RatDiv(SumRat([i \in 1..7 |-> ValueOf(data, days[i])]), 7)
            /\ (\A i \in 1..7 : getTasksForDateLocked(data, days[i]) = <<>>) =>
                  /\ r.dailyPercentages = [i \in 1..7 |-> Zero]
                  /\ r.weeklyAverage = Zero

\* C19's case: the week over the year end with one day at 40 percent, of
\* average 40 / 7, and a week before the first template, all 0, in a document
\* that has tasks and a record.
C19_Witness ==
    /\ started
    /\ GetWeeklyReportOf(data, FormatDate(FirstDay)).dailyPercentages
          = <<Zero, Rat(40, 1), Zero, Zero, Zero, Zero, Zero>>
    /\ GetWeeklyReportOf(data, FormatDate(FirstDay)).weeklyAverage = Rat(40, 7)
    /\ GetWeeklyReportOf(data, FormatDate(<<2024, 12, 23>>)).weeklyAverage = Zero
    /\ FirstDay \in DOMAIN data.Days

\* The number of days of a month by the calendar.
MonthLength(y, m) ==
    DayNum(IF m = 12 THEN <<y + 1, 1, 1>> ELSE <<y, m + 1, 1>>) - DayNum(<<y, m, 1>>)

\* The smaller of two numbers.
Min(a, b) == IF a < b THEN a ELSE b

\* The turn of GetMonthlyReport's outer loop that starts on day 7k + 1 of a
\* month of N days runs through days 7k + 1 .. min(7k + 7, N): none of it
\* depends on the document.
TurnsOfSeven ==
    \A ym \in ArgMonths :
        LET N == MonthLength(ym[1], ym[2])
        IN  \A k \in 0..((N - 1) \div 7) :
              LET run == WeekOfMonth(NewAppData, <<ym[1], ym[2], 7 * k + 1>>,
                                     <<ym[1], ym[2], N>>, 0, Zero, 0)
              IN  /\ run.daysInWeek = Min(7 * k + 7, N) - 7 * k
                  /\ run.currentDay = DayAt[DayNum(<<ym[1], ym[2], 1>>) + 7 * k + run.daysInWeek]

\* C20: GetMonthlyReport of a month of N days has ceil(N / 7) blocks, block k
\* (from 0) being the sum of the values of days 7k + 1 .. min(7k + 7, N)
\* divided by the number of these days: 5 blocks of 7, 7, 7, 7 and 2 days for
\* a month of 30 days, 4 blocks of 7 for one of 28.
C20_MonthlyBlocks ==
    /\ TurnsOfSeven
    /\ \A ym \in ArgMonths :
          LET N == MonthLength(ym[1], ym[2])
              blocks == GetMonthlyReportOf(data, ym[1], ym[2]).weeklyAverages
          IN  /\ Len(blocks) = (N + 6) \div 7
              /\ \A k \in 0..(Len(blocks) - 1) :
                    LET lo == 7 * k + 1
                        hi == Min(7 * k + 7, N)
                    IN  blocks[k + 1] =
                            RatDiv(SumRat([i \in 1..(hi - lo + 1) |->
                                             ValueOf(data, <<ym[1], ym[2], lo + i - 1>>)]),
                                   hi - lo + 1)
              /\ N = 30 => Len(blocks) = 5
              /\ N = 28 => Len(blocks) = 4

\* C20's case: December 2024 with its last day at 40 percent: five blocks, the
\* last of three days with one day of data, 40 / 3; and the months of 30 and
\* of 28 days.
C20_Witness ==
    /\ started
    /\ GetMonthlyReportOf(data, 2024, 12).weeklyAverages
          = <<Zero, Zero, Zero, Zero, Rat(40, 3)>>
    /\ Len(GetMonthlyReportOf(data, 2024, 11).weeklyAverages) = 5
    /\ WeekOfMonth(data, <<2024, 11, 29>>, <<2024, 11, 30>>, 0, Zero, 0).daysInWeek = 2
    /\ Len(GetMonthlyReportOf(data, 2025, 2).weeklyAverages) = 4

\* The months of the year of use whose days can have a percentage.
TrendMonths == {<<2024, 3>>, <<2024, 6>>, <<2024, 7>>, <<2024, 9>>}

\* The trend that the first and the last of the block averages w give: up when
\* last - first is above 10, down when it is below -10, stable otherwise.
TrendOfEnds(w) ==
    LET diff == RatSub(w[Len(w)], w[1])
    IN  IF RatLess(Rat(10, 1), diff) THEN "up"
        ELSE IF RatLess(diff, Rat(-10, 1)) THEN "down"
        ELSE "stable"

\* C21: the trend of GetMonthlyReport is a function of the first and the last
\* block average alone: up iff last > first + 10, down iff last < first - 10,
\* stable otherwise, a difference of exactly 10 either way being stable; the
\* blocks between the two do not enter it.
C21_TrendFirstLast ==
    started =>
        \A ym \in TrendMonths :
            LET r == GetMonthlyReportOf(data, ym[1], ym[2])
            IN  r.trendDirection = TrendOfEnds(r.weeklyAverages)

\* C21's case: June ends exactly 10 above its start and July starts exactly 10
\* above its end, both stable, and March is stable with both ends at 0 around
\* a second block above 0.
C21_Witness ==
    /\ started
    /\ LET june == GetMonthlyReportOf(data, 2024, 6)
           july == GetMonthlyReportOf(data, 2024, 7)
           march == GetMonthlyReportOf(data, 2024, 3)
       IN  /\ june.weeklyAverages[1] = Zero
           /\ june.weeklyAverages[5] = Rat(10, 1)
           /\ june.trendDirection = "stable"
           /\ july.weeklyAverages[1] = Rat(10, 1)
           /\ july.weeklyAverages[5] = Zero
           /\ july.trendDirection = "stable"
           /\ march.weeklyAverages[1] = Zero
           /\ march.weeklyAverages[5] = Zero
           /\ RatLess(Zero, march.weeklyAverages[2])
           /\ march.trendDirection = "stable"

\* The year of use.
ReportYears == {2024}

\* createdAt <= dt and (deletedAt is absent or deletedAt > dt), by the
\* calendar, for any day.
ValidByCalendar(t, dt) ==
    /\ DayNum(t.CreatedAt) <= DayNum(dt)
    /\ (t.DeletedAt = Nil \/ DayNum(t.DeletedAt[1]) > DayNum(dt))

\* The days of month m of year y that have a stored record and at least one
\* valid template.
CountedDays(doc, y, m) ==
    {dt \in DOMAIN doc.Days :
        /\ dt[1] = y /\ dt[2] = m
        /\ \E t \in Range(doc.Templates) : ValidByCalendar(t, dt)}

\* The percentage of section 4.4 for a day of CountedDays.
PercentOn(doc, dt) ==
    LET T == {t \in Range(doc.Templates) : ValidByCalendar(t, dt)}
        done == {t \in T : t.ID \in DOMAIN doc.Days[dt] /\ doc.Days[dt][t.ID] > 0}
    IN  Rat(100 * Cardinality(done), Cardinality(T))

\* The sum of the percentages of the days S, and of their squares.
RECURSIVE SumOfPercents(_, _)
SumOfPercents(doc, S) ==
    IF S = {} THEN Zero
    ELSE LET dt == CHOOSE x \in S : TRUE
         IN  RatAdd(PercentOn(doc, dt), SumOfPercents(doc, S \ {dt}))

RECURSIVE SumOfSquaredPercents(_, _)
SumOfSquaredPercents(doc, S) ==
    IF S = {} THEN Zero
    ELSE LET dt == CHOOSE x \in S : TRUE
         IN  RatAdd(RatMul(PercentOn(doc, dt), PercentOn(doc, dt)),
                    SumOfSquaredPercents(doc, S \ {dt}))

\* The mean of the percentages of the counted days of a month, 0 for none.
MeanOfMonth(doc, y, m) ==
    LET S == CountedDays(doc, y, m)
    IN  IF S = {} THEN Zero ELSE RatDiv(SumOfPercents(doc, S), Cardinality(S))

\* Their population variance: the mean of the squares less the square of the
\* mean.
VarianceOfMonth(doc, y, m) ==
    LET S == CountedDays(doc, y, m)
        mean == MeanOfMonth(doc, y, m)
    IN  IF S = {} THEN Zero
        ELSE RatSub(RatDiv(SumOfSquaredPercents(doc, S), Cardinality(S)), RatMul(mean, mean))

\* C22: monthlyAverages[m] of GetYearlyReport is the mean of the day
\* percentages over exactly the days of month m that have at least one valid
\* template and a stored record (a day at 0% among them), and 0 when there is
\* no such day.
C22_MonthlyAverages ==
    started =>
        \A y \in ReportYears :
            LET r == GetYearlyReportOf(data, y)
            IN  /\ Len(r.monthlyAverages) = 12
                /\ \A m \in 1..12 : r.monthlyAverages[m] = MeanOfMonth(data, y, m)

\* C22's case: January has a record on a day without a valid template and the
\* average 0; July has the average 70/3 of the three days at 20%, 0% and 50%.
C22_Witness ==
    /\ started
    /\ <<2024, 1, 15>> \in DOMAIN data.Days
    /\ CountedDays(data, 2024, 1) = {}
    /\ CountedDays(data, 2024, 7) = {<<2024, 7, 1>>, <<2024, 7, 2>>, <<2024, 7, 3>>}
    /\ PercentOn(data, <<2024, 7, 2>>) = Zero
    /\ LET r == GetYearlyReportOf(data, 2024)
       IN  /\ r.monthlyAverages[1] = Zero
           /\ r.monthlyAverages[7] = Rat(70, 3)

\* The months of year y with an average above 0.
PositiveMonths(doc, y) == {m \in 1..12 : RatLess(Zero, MeanOfMonth(doc, y, m))}

\* C23: when some month has an average above 0, mostConsistentMonth is the
\* 0-based index of the month of lowest population variance among the months
\* with an average above 0, the first of them in the year when several share
\* that variance.
C23_MostConsistent ==
    started =>
        \A y \in ReportYears :
            LET P == PositiveMonths(data, y)
                best == CHOOSE m \in P :
                            \A k \in P :
                                \/ RatLess(VarianceOfMonth(data, y, m), VarianceOfMonth(data, y, k))
                                \/ /\ VarianceOfMonth(data, y, m) = VarianceOfMonth(data, y, k)
                                   /\ m <= k
            IN  P # {} => GetYearlyReportOf(data, y).mostConsistentMonth = best - 1

\* C23's case: July and September both average 50, July with variance 50 and
\* September, after it, with variance 0; March, before both, has variance 0
\* and the average 0; the report names September.
C23_Witness ==
    /\ started
    /\ MeanOfMonth(data, 2024, 3) = Zero
    /\ CountedDays(data, 2024, 3) # {}
    /\ MeanOfMonth(data, 2024, 7) = Rat(50, 1)
    /\ VarianceOfMonth(data, 2024, 7) = Rat(50, 1)
    /\ MeanOfMonth(data, 2024, 9) = Rat(50, 1)
    /\ VarianceOfMonth(data, 2024, 9) = Zero
    /\ GetYearlyReportOf(data, 2024).mostConsistentMonth = 8

\* C24, as stated: yearTotal is the sum of the monthly averages of the months
\* with an average above 0 divided by the number of these months, 0 when
\* there is none; a month whose recorded days are all at 0% is not counted.
C24_YearTotalOverPositive ==
    started =>
        \A y \in ReportYears :
            LET P == PositiveMonths(data, y)
                means == [m \in 1..12 |-> MeanOfMonth(data, y, m)]
            IN  GetYearlyReportOf(data, y).yearTotal =
                    IF P = {} THEN Zero ELSE RatDiv(SumRat(means), Cardinality(P))

\* The weeks IsWeekExported is asked about: the one the model marks and one it
\* never marks.
AskedWeeks == ArgWeeks \cup {<<2024, 12, 23>>}

\* C25: IsWeekExported(w) is true iff w is a key of the exported-weeks map;
\* a MarkWeekExported(w) call leaves it true, with today as the date of w and
\* every other week as it was; while the process runs a week that is exported
\* stays exported; and no step but a MarkWeekExported call changes the map.
C25_ExportedWeeks ==
    [][/\ \A w \in AskedWeeks :
             IsWeekExportedOf(data', w) <=> w \in DOMAIN data'.ExportHistory
       /\ Returned("MarkWeekExported") =>
             LET w == last'.arg[1]
             IN  /\ IsWeekExportedOf(data', w)
                 /\ DOMAIN data'.ExportHistory = DOMAIN data.ExportHistory \cup {w}
                 /\ data'.ExportHistory[w] = today
                 /\ \A k \in DOMAIN data.ExportHistory \ {w} :
                        data'.ExportHistory[k] = data.ExportHistory[k]
       /\ started /\ started' =>
             \A w \in AskedWeeks : IsWeekExportedOf(data, w) => IsWeekExportedOf(data', w)
       /\ ~Returned("MarkWeekExported") => data'.ExportHistory = data.ExportHistory]_vars

\* C25's case: a MarkWeekExported call on the second day, not the first call
\* of the run, has returned; the week is exported under the date of that day
\* and the other week is not.
C25_Witness ==
    /\ started
    /\ last.op = "MarkWeekExported"
    /\ nops >= 2
    /\ today = LastDay
    /\ IsWeekExportedOf(data, FirstDay)
    /\ data.ExportHistory[FirstDay] = LastDay
    /\ ~IsWeekExportedOf(data, <<2024, 12, 23>>)

\* This step is a startup that returned.
StartupReturned == ~started /\ started' /\ last'.op = "startup"

\* The file is one of the old format with a list that is not empty.
IsLegacy(file) ==
    /\ file # NoFile
    /\ "legacy" \in DOMAIN file[1]
    /\ \E k \in DOMAIN file[1].legacy : Len(file[1].legacy[k]) > 0

\* The ids and the names of the templates of a migration, by position.
LegacyIds == <<"task-1", "task-2", "task-3", "task-4">>
LegacyNames == <<"Task 1", "Task 2", "Task 3", "Task 4">>

\* An example of the old format.
LegacyExample == FileOf(LegacyBytes([dt \in {<<2024, 1, 1>>} |-> <<TRUE, FALSE, TRUE>>]))

\* C26: a startup on a file of the old format with a list that is not empty
\* leaves exactly four binary templates task-1..task-4, named Task 1..Task 4,
\* of order 0..3, and for every date of the file a record that holds 1 or 0
\* for template i for the boolean at position i < 4 and nothing else; on
\* {"2024-01-01": [true, false, true]} LoadDay("2024-01-01") is
\* {task-1: 1, task-2: 0, task-3: 1}.
C26_LegacyMigration ==
    [][StartupReturned /\ IsLegacy(dataFile) =>
          LET old == dataFile[1].legacy
          IN  /\ Len(data'.Templates) = 4
              /\ \A i \in 1..4 :
                     /\ data'.Templates[i].ID = LegacyIds[i]
                     /\ data'.Templates[i].Name = LegacyNames[i]
                     /\ data'.Templates[i].Type = "binary"
                     /\ data'.Templates[i].Order = i - 1
              /\ DOMAIN data'.Days = DOMAIN old
              /\ \A k \in DOMAIN old :
                     /\ DOMAIN data'.Days[k] = {LegacyIds[i] : i \in 1..Min(4, Len(old[k]))}
                     /\ \A i \in 1..Min(4, Len(old[k])) :
                            data'.Days[k][LegacyIds[i]] = IF old[k][i] THEN 1 ELSE 0
                     /\ LoadDayOf(data', k) = data'.Days[k]
              /\ dataFile = LegacyExample =>
                     LoadDayOf(data', <<2024, 1, 1>>) =
                         [id \in {"task-1", "task-2", "task-3"} |->
                            IF id = "task-2" THEN 0 ELSE 1]]_vars

\* C26's case: the program has started on the file with six booleans for
\* 2024-01-01 and none for 2024-01-02: the first day has the four entries
\* of the first four booleans, the second day a record without entries.
C26_Witness ==
    /\ started
    /\ last.op = "startup"
    /\ ncrashes = 0
    /\ Len(data.Templates) = 4
    /\ data.Templates[4].ID = "task-4"
    /\ <<2024, 1, 2>> \in DOMAIN data.Days
    /\ LoadDayOf(data, <<2024, 1, 2>>) = EmptyMap
    /\ LoadDayOf(data, <<2024, 1, 1>>) =
           [id \in {"task-1", "task-2", "task-3", "task-4"} |->
              IF id \in {"task-2", "task-3"} THEN 1 ELSE 0]

\* The file is an output of Marshal for a document with templates: the core
\* saves after its migration, after its bootstrap and in its operations, and
\* each of them leaves templates in the document.
WrittenByCore(file) ==
    /\ file # NoFile
    /\ file = FileOf(Marshal(LoadWire(file[1])))
    /\ LoadWire(file[1]).Templates # <<>>

\* C27: the startup sequence (load, migrate, bootstrap) on a file the core
\* wrote migrates nothing, creates no default template, writes nothing and
\* yields the templates, day records, export directory and exported weeks
\* that were in memory when the file was written: whenever the file is the
\* one written from the document in memory, the sequence run on it gives back
\* that document, and every startup on such a file leaves the file as it is,
\* draws no identifier and saves nothing.
C27_StartupIdempotent ==
    /\ [](started /\ dataFile = FileOf(Marshal(data)) =>
            LET loaded == loadData(NewAppData, dataFile)
                mig == migrateOldData(loaded, dataFile, today)
            IN  /\ loaded = data
                /\ mig = <<data, FALSE>>
                /\ Len(mig[1].Templates) # 0)
    /\ [][StartupReturned /\ WrittenByCore(dataFile) =>
            /\ dataFile' = dataFile
            /\ ~last'.saved
            /\ uuidCount' = uuidCount
            /\ tmps' = tmps
            /\ FileOf(Marshal(data')) = dataFile]_vars

\* C27's case: the program migrated a file of the old format, deleted task-1
\* and marked a week, stopped, and has started again on the file it wrote,
\* without a save, with the templates of the migration and what it changed.
C27_Witness ==
    /\ started
    /\ last.op = "startup"
    /\ ~last.saved
    /\ ncrashes = 1
    /\ nops >= 2
    /\ dataFile = FileOf(Marshal(data))
    /\ Len(data.Templates) = 4
    /\ data.Templates[1].ID = "task-1"
    /\ data.Templates[1].DeletedAt # Nil
    /\ IsWeekExportedOf(data, FirstDay)
    /\ <<2024, 1, 1>> \in DOMAIN data.Days

\* The names of the default tasks, by position.
DefaultNames == <<"Morning Routine", "Deep Work", "Exercise", "Evening Review">>

\* C28: a startup that finds no template after load and migration leaves
\* exactly four binary templates named Morning Routine, Deep Work, Exercise
\* and Evening Review, of order 0..3, created today, not deleted, with four
\* different ids, and has saved the document; a startup that finds a
\* template, deleted or not, leaves the templates it found.
C28_DefaultBootstrap ==
    [][StartupReturned =>
          LET found == migrateOldData(loadData(data, dataFile), dataFile, today)[1]
          IN  IF Len(found.Templates) = 0
              THEN /\ Len(data'.Templates) = 4
                   /\ \A i \in 1..4 :
                          /\ data'.Templates[i].Name = DefaultNames[i]
                          /\ data'.Templates[i].Type = "binary"
                          /\ data'.Templates[i].Order = i - 1
                          /\ data'.Templates[i].CreatedAt = today
                          /\ data'.Templates[i].DeletedAt = Nil
                   /\ \A i, j \in 1..4 :
                          data'.Templates[i].ID = data'.Templates[j].ID => i = j
                   /\ last'.saved
                   /\ dataFile' = FileOf(Marshal(data'))
              ELSE data'.Templates = found.Templates]_vars

\* C28's case: the program has started a second time; it holds the four
\* default tasks its first start made and has added none and saved nothing.
C28_Witness ==
    /\ started
    /\ last.op = "startup"
    /\ ~last.saved
    /\ ncrashes = 1
    /\ Len(data.Templates) = 4
    /\ \A i \in 1..4 : data.Templates[i].Name = DefaultNames[i]
    /\ uuidCount = 4

\* What the data path holds when there is no file to load: none, one that
\* cannot be read, one that is no JSON.
NothingToLoad == {NoFile, FileOf(Unreadable), FileOf(Garbage)}

\* C29: a startup on a data path without a file, with an unreadable file or
\* with bytes that do not parse returns; the load leaves the empty document;
\* after the bootstrap the document holds the four default tasks and nothing
\* else, and the reads give their empty defaults: LoadDay an empty mapping,
\* LoadWeek seven of them, the weekly, monthly and yearly report zeros and a
\* stable trend, IsWeekExported false.
C29_NothingToLoad ==
    [][~started /\ last'.op = "startup" /\ dataFile \in NothingToLoad =>
          /\ started'
          /\ ~last'.crashed /\ last'.err = ""
          /\ loadData(data, dataFile) = NewAppData
          /\ data' = [NewAppData EXCEPT !.Templates = DefaultTasks(today, uuidCount)]
          /\ \A dt \in Dates : LoadDayOf(data', dt) = EmptyMap
          /\ \A ws \in ArgWeekStarts :
                 /\ LoadWeekOf(data', DateKey[ws]) = [dt \in Range(WeekDays[ws]) |-> EmptyMap]
                 /\ GetWeeklyReportOf(data', DateKey[ws]) =
                        [dailyPercentages |-> [i \in 1..7 |-> Zero], weeklyAverage |-> Zero]
          /\ \A ym \in ArgMonths :
                 LET r == GetMonthlyReportOf(data', ym[1], ym[2])
                 IN  /\ \A i \in DOMAIN r.weeklyAverages : r.weeklyAverages[i] = Zero
                     /\ r.trendDirection = "stable"
          /\ \A y \in ReportYears :
                 GetYearlyReportOf(data', y) =
                     [monthlyAverages |-> [m \in 1..12 |-> Zero],
                      mostConsistentMonth |-> 0, yearTotal |-> Zero]
          /\ \A w \in AskedWeeks : ~IsWeekExportedOf(data', w)
          /\ data'.ExportPath = ""]_vars

\* C29's case: the program has started on bytes that are no JSON and holds
\* the default tasks, no record and no exported week.
C29_Witness ==
    /\ started
    /\ last.op = "startup"
    /\ last.arg = <<FileOf(Garbage)>>
    /\ Len(data.Templates) = 4
    /\ data.Days = EmptyMap
    /\ data.ExportHistory = EmptyMap
    /\ LoadDayOf(data, StartDay) = EmptyMap

\* The operations that return the error of their save.
ReportingOps == MutatingOps \ {"AddTask"}

\* C30, as stated: when the atomic write cannot put the temporary file in
\* place (the rename fails, and the fallback fails too or does not apply), the
\* call leaves no temporary file and returns the error of the first rename.
C30_FirstRenameError ==
    [][\A op \in ReportingOps :
          Returned(op) /\ last'.saved /\ last'.err \in {"rename", "rename2"} =>
              /\ tmps' = tmps
              /\ last'.err = "rename"]_vars

\* ------------------------------------------------------------ unit of a task

\* The unit the settings dialog hands to AddTask with the name and the type.
GivenUnit == "glasses"

\* The unit the caller reads in a template it is given: the "unit" member of
\* its JSON, none when the object has no such member.
JsonUnit(o) == IF "unit" \in DOMAIN o THEN o.unit ELSE ""

\* C31, as stated: an AddTask of a count task called with a unit stores it,
\* so that GetTaskTemplates returns the new template with that unit.
C31_UnitStored ==
    [][Returned("AddTask") /\ last'.arg[2] = "count" =>
          \E i \in DOMAIN GetTaskTemplatesOf(data') :
              LET o == MarshalTemplate(GetTaskTemplatesOf(data')[i])
              IN  o.id = last'.ret[1].ID /\ JsonUnit(o) = GivenUnit]_vars

\* ------------------------------------------------------ cells of a loaded file

\* The root object of the file a startup found, when it is of the current
\* schema.
FoundRoot == dataFile[1]

\* The integer v is the number num / den without its fraction.
IsTruncation(v, num, den) ==
    IF num >= 0 THEN v >= 0 /\ v * den <= num /\ num < (v + 1) * den
    ELSE v <= 0 /\ (-v) * den <= -num /\ -num < (1 - v) * den

\* C35: a startup on a file of the current schema keeps every date of the
\* file; of each record it keeps the cells that are booleans or numbers, true
\* as 1, false as 0, a number as the integer left when its fraction is cut
\* off, and no other cell; a template without a type, or with an empty one,
\* is read as binary, every other template with the type it has.
C35_LoadNormalizes ==
    [][~started /\ last'.op = "startup" /\ dataFile # NoFile
         /\ "days" \in DOMAIN FoundRoot /\ "templates" \in DOMAIN FoundRoot =>
          LET days == FoundRoot.days
              tpls == FoundRoot.templates
          IN  /\ DOMAIN data'.Days = DOMAIN days
              /\ \A dt \in DOMAIN days :
                    /\ DOMAIN data'.Days[dt] \subseteq DOMAIN days[dt]
                    /\ \A id \in DOMAIN days[dt] :
                          LET c == days[dt][id]
                              kept == id \in DOMAIN data'.Days[dt]
                          IN  CASE c.tag = "bool" ->
                                     kept /\ data'.Days[dt][id] = (IF c.val THEN 1 ELSE 0)
                                [] c.tag = "number" ->
                                     kept /\ IsTruncation(data'.Days[dt][id], c.num,
                                                          IF "den" \in DOMAIN c
                                                          THEN c.den ELSE 1)
                                [] OTHER -> ~kept
              /\ Len(data'.Templates) = Len(tpls)
              /\ \A i \in DOMAIN tpls :
                    data'.Templates[i].Type =
                        (IF "type" \in DOMAIN tpls[i] /\ tpls[i].type # ""
                         THEN tpls[i].type ELSE "binary")]_vars

\* C35's case: the program has started on a file whose first template has no
\* type and whose record of July 1 holds -5/2, a string and a whole number; it
\* holds the template as binary and of that record -2 and the whole number.
C35_Witness ==
    /\ started
    /\ last.op = "startup"
    /\ last.arg = <<FileOf(LooseBytes(<<>>, JFraction(-5, 2), JString("yes")))>>
    /\ data.Templates[1].Type = "binary"
    /\ data.Days[<<2024, 7, 1>>] = [h1 |-> -2, h3 |-> 3]
    /\ data.Days[<<2024, 7, 2>>] = EmptyMap

\* ------------------------------------------------------------- failed saves

\* C36, as stated: whenever a save returns an error, from whatever step of the
\* atomic write, the fallback included, the data file it was to replace is
\* still there with the content it had before the call.
C36_FailedSaveKeepsFile ==
    [][\A op \in ReportingOps :
          Returned(op) /\ last'.saved /\ last'.err # "" /\ dataFile # NoFile =>
              dataFile' = dataFile]_vars

\* ------------------------------------------------- reports after a migration

\* The place of day dt in the week that starts on FirstDay, from 1.
PlaceInWeek(dt) == CHOOSE i \in 1..7 : WeekDays[FirstDay][i] = dt

\* The percentage GetWeeklyReport gives day dt of that week.
WeeklyPercentage(doc, dt) ==
    GetWeeklyReportOf(doc, DateKey[FirstDay]).dailyPercentages[PlaceInWeek(dt)]

\* C37, as stated: after the migration of a file of the old format, for every
\* date of the file whose list holds a true, the templates of the migration
\* are valid on that date and the weekly report of its week gives it a
\* percentage above 0.
C37_MigratedDaysCounted ==
    [][StartupReturned /\ IsLegacy(dataFile) =>
          \A dt \in DOMAIN dataFile[1].legacy :
              (\E i \in DOMAIN dataFile[1].legacy[dt] : dataFile[1].legacy[dt][i]) =>
                  /\ GetTasksForDateOf(data', dt) # <<>>
                  /\ RatLess(Zero, WeeklyPercentage(data', dt))]_vars

\* C37, amended: after the migration the reports count the migrated records
\* of the day of the migration and of later days only.  For a date of the file
\* before the day of the migration no template is valid, GetTasksForDate is
\* empty and the weekly report gives the date 0, whatever its list holds; for
\* a date on or after that day the four templates are valid, and the weekly
\* report gives it a percentage above 0 exactly when one of the first four
\* booleans of its list is true.
C37_CountedFromMigrationDay ==
    [][StartupReturned /\ IsLegacy(dataFile) =>
          \A dt \in DOMAIN dataFile[1].legacy :
              IF TimeBefore(dt, today)
              THEN /\ GetTasksForDateOf(data', dt) = <<>>
                   /\ WeeklyPercentage(data', dt) = Zero
              ELSE /\ Len(GetTasksForDateOf(data', dt)) = 4
                   /\ RatLess(Zero, WeeklyPercentage(data', dt)) <=>
                        \E i \in (DOMAIN dataFile[1].legacy[dt]) \cap 1..4 :
                            dataFile[1].legacy[dt][i]]_vars

\* C37's case: the program has migrated a file with the list true, false,
\* true for the day before, the day of and the day after the migration; the
\* three records are stored, the first counts for nothing in the weekly
\* report and the other two for 50%.
C37_Witness ==
    /\ started
    /\ last.op = "startup"
    /\ last.arg = <<FileOf(LegacyBytes([dt \in MigrateDays |-> <<TRUE, FALSE, TRUE>>]))>>
    /\ \A dt \in MigrateDays : LoadDayOf(data, dt) = [id \in {"task-1", "task-2", "task-3"} |->
                                                        IF id = "task-2" THEN 0 ELSE 1]
    /\ WeeklyPercentage(data, FirstDay) = Zero
    /\ WeeklyPercentage(data, StartDay) = Rat(50, 1)
    /\ WeeklyPercentage(data, NextDay(StartDay)) = Rat(50, 1)

\* ------------------------------------------------------------ distinct orders

\* C39: from the bootstrapped or the migrated templates on, when every list
\* given to ReorderTasks is a permutation of the ids GetTaskTemplates returns,
\* no two templates that are not deleted have the same order, and
\* GetTaskTemplates returns them by strictly rising order.
C39_DistinctOrders ==
    started =>
        /\ \A i, j \in DOMAIN data.Templates :
              i # j /\ data.Templates[i].DeletedAt = Nil /\ data.Templates[j].DeletedAt = Nil
                  => data.Templates[i].Order # data.Templates[j].Order
        /\ \A k \in 1..(Len(GetTaskTemplatesOf(data)) - 1) :
              GetTaskTemplatesOf(data)[k].Order < GetTaskTemplatesOf(data)[k + 1].Order

\* C39's case: a task was added after a template was deleted and the others
\* were moved; a deleted template has the order of one that is not deleted.
C39_Witness ==
    /\ started
    /\ Len(data.Templates) = 5
    /\ \E i, j \in DOMAIN data.Templates :
          /\ data.Templates[i].DeletedAt # Nil
          /\ data.Templates[j].DeletedAt = Nil
          /\ data.Templates[i].Order = data.Templates[j].Order

\* ------------------------------------------------------ memory and data file

\* The data file holds the serialization of the document in memory.
FileIsMemory == dataFile = FileOf(Marshal(data))

\* This step is a call whose save met a failing system call.
WriteFailed == nfaults' = nfaults + 1

\* C40: a mutating operation whose write succeeds leaves in the data file the
\* serialization of the whole document in memory, with the changes of earlier
\* operations whose writes failed; while the process runs, the file and the
\* memory come apart only in a call whose write fails, and a call that
\* writes nothing leaves them as they were.
C40_FileIsWholeDocument ==
    [][started /\ started' =>
          /\ \A op \in MutatingOps :
                Returned(op) /\ last'.saved /\ ~WriteFailed => FileIsMemory'
          /\ FileIsMemory /\ ~FileIsMemory' => WriteFailed /\ last'.saved
          /\ ~last'.saved /\ last' # last => (FileIsMemory' <=> FileIsMemory)]_vars

\* C40's case: after a write that failed, of the startup or of SetExportPath,
\* MarkWeekExported has written; the file holds the default tasks, the export
\* directory and the marked week.
C40_Witness ==
    /\ started
    /\ nops = 2
    /\ nfaults = 1
    /\ last.op = "MarkWeekExported"
    /\ last.err = ""
    /\ data.ExportPath = "/exports"
    /\ DOMAIN data.Templates = 1..4
    /\ FirstDay \in DOMAIN data.ExportHistory
    /\ FileIsMemory
    /\ loadData(NewAppData, dataFile).ExportPath = "/exports"

\* ------------------------------------------------- tasks the planner displays

\* The ids of a list of templates, in its order.
IdsOf(tpls) == [i \in DOMAIN tpls |-> tpls[i].ID]

\* C34, as stated: for every date, the tasks the planner shows once it has
\* loaded the templates are those GetTasksForDate returns for the date, the
\* templates deleted after the date among them.
C34_PlannerShowsTasksForDate ==
    started => \A dt \in Dates : IdsOf(ShownTasks(data, dt)) = IdsOf(GetTasksForDateOf(data, dt))

\* ------------------------------------------------------- the critical sections

\* The callers inside the critical section of a mutating operation, from the
\* return of Lock to the Unlock, and those inside the one of a read.
Writing == {c \in DOMAIN procs : procs[c].pc # "wait" /\ procs[c].op \notin ReadOps}
Reading == {c \in DOMAIN procs : procs[c].pc # "wait" /\ procs[c].op \in ReadOps}

\* C32: with callers running at the same time, at most one is inside a
\* mutating operation and none is inside a read meanwhile; the change in
\* memory and the write both happen inside, so that a read finds the document
\* as the last finished write left it in the file, and finds the same
\* document in all its parts.
C32_CriticalSections ==
    /\ Cardinality(Writing) <= 1
    /\ Writing # {} => Reading = {}
    /\ \A c \in Reading :
          /\ dataFile = FileOf(Marshal(data))
          /\ \A i \in DOMAIN procs[c].seen : procs[c].seen[i] = data

\* C32's case: a SaveDay has changed the document in memory and not yet
\* written it, while a read waits for the lock.
C32_Witness ==
    \E c, r \in DOMAIN procs :
        /\ procs[c].op = "SaveDay"
        /\ procs[c].pc = "changed"
        /\ dataFile # FileOf(Marshal(data))
        /\ procs[r].op = "GetWeeklyReport"
        /\ procs[r].pc = "wait"

\* ------------------------------------------------------- exports of one week

\* C33, as stated: whatever the order of the awaited calls of the two export
\* flows and however often they run, the export file of a week is written at
\* most once, and never once the week is marked as exported.
C33_ExportedAtMostOnce ==
    /\ [](ui # NoUi => \A wk \in Range(HistoryWeeks) : ui.written[wk] <= 1)
    /\ [][ui # NoUi /\ ui' # NoUi =>
            \A wk \in Range(HistoryWeeks) :
                IsWeekExportedOf(data, wk) => ui'.written[wk] = ui.written[wk]]_vars

\* ------------------------------------------------------ changes that are kept

\* C38, as stated: once every SaveDay and every refresh of the planner have
\* completed, the stored record of the day holds, for every task the user
\* changed, the last value the user set.
C38_LatestValuesStored ==
    (ui # NoUi /\ ui.changes > 0 /\ ui.calls = <<>> /\ ui.answers = <<>>) =>
        \A id \in DOMAIN ui.wanted :
            /\ id \in DOMAIN LoadDayOf(data, PlannerDay)
            /\ LoadDayOf(data, PlannerDay)[id] = ui.wanted[id]

====
